---- MODULE Spec2Model ----
(***************************************************************************)
(* Mysti: the permission request/response state machine                    *)
(* (PermissionManager), the CLI process runner (BaseCliProvider) and the   *)
(* stream normalizer (line reassembly and ProviderManager._parseStreamLine).*)
(* The host is single-threaded: every handler runs to completion, so each  *)
(* handler is one action.                                                  *)
(***************************************************************************)
EXTENDS Integers, Sequences, FiniteSets, TLC

\* ------------------------------------------------------------------------
\* Bounds
\* ------------------------------------------------------------------------
\* number of permission requests that may be created in one run
MaxReq == 2
\* number of stdout chunks one child process may write
MaxChunks == 2
\* number of bytes one child process may write to its stdout
MaxBytes == 4
\* number of stdout lines handed to the line parser in one process
MaxLines == 5
MaxContentLen == 3  \* characters of a user message
MaxMessages == 11   \* messages of a conversation
MaxOutputLen == 4   \* characters a helper process writes
MaxSkills == 2      \* enabled skills of an agent configuration

\* ------------------------------------------------------------------------
\* PermissionManager: types
\* ------------------------------------------------------------------------
ReqIds == 1..MaxReq

AccessLevels == {"read-only", "ask-permission", "full-access"}

ActionTypes == {"file-read", "file-create", "file-edit", "file-delete",
                "bash-command", "web-request", "multi-file-edit"}

Decisions == {"approve", "deny", "always-allow"}

TimeoutBehaviors == {"auto-accept", "auto-reject", "require-action"}

\* permission.timeout in seconds: 0 (no timeout) or the default of 30
Timeouts == {0, 30}

Configs == [timeout : Timeouts, timeoutBehavior : TimeoutBehaviors]

NoRequest == [status |-> "none"]

NoCall == [op |-> "none", arg |-> "none", id |-> 0, ret |-> "none"]

VARIABLES
    \* --- PermissionManager fields
    sessionAccessLevel,   \* _sessionAccessLevel
    config,               \* _config
    requests,             \* the PermissionRequest objects ever created, by id
    pendingRequests,      \* keys of _pendingRequests
    resolvers,            \* keys of _resolvers
    timeoutHandles,       \* keys of _timeoutHandles
    \* --- environment of the PermissionManager
    timers,               \* ids whose setTimeout is armed (not fired, not cleared)
    nextId,               \* number of ids generated so far
    promise,              \* state of the promise returned for each id
    resolveCalls,         \* how often each id's resolver has been invoked
    posted,               \* messages handed to postToWebview, per id
    lastCall,             \* the last call made: operation, argument, return value
    upgraded,             \* an always-allow was handled and no reset came since
    \* --- BaseCliProvider fields and the child process
    currentProcess,       \* _currentProcess: TRUE when it references the child
    pc,                   \* position of the sendMessage generator
    child,                \* the spawned ChildProcess and the OS process behind it
    stdoutBuf,            \* chunks written by the child and not yet read
    written,              \* chunks the child has written so far
    closeListener,        \* waitForProcess's 'close' listener is registered
    hardTimer,            \* waitForProcess's PROCESS_TIMEOUT_MS timer
    graceTimers,          \* armed PROCESS_KILL_GRACE_PERIOD_MS timers
    exitCode,             \* value waitForProcess resolved with
    yielded,              \* chunks yielded to the consumer
    cancelled,            \* cancelCurrentRequest has acted on this send
    \* --- processStream: reassembly of stdout chunks into lines
    stdoutBytes,          \* everything the child writes to stdout, as bytes
    delivered,            \* number of those bytes the for-await has received
    buffer,               \* processStream's buffer (decoded characters)
    parsedLines,          \* the lines handed to parseStreamLine, in order
    eof,                  \* the for-await and the remainder step are over
    \* --- ProviderManager: session id and line parser
    currentSessionId,     \* _currentSessionId ("null" when null)
    activeToolCalls,      \* _activeToolCalls: block index -> {id, name, inputJson}
    resumedWith,          \* session id the current process was started with
    fedLines,             \* the lines parsed so far in the current process
    chunks,               \* the chunks the parser returned for them
    \* --- prompt building
    promptArgs,           \* arguments of the last buildPrompt call
    fullPrompt,           \* the prompt it returned, as a sequence of parts
    \* --- two panels sending through one provider
    providerProcess,      \* the provider's _currentProcess: whose process
    panelProcesses,       \* the per-panel process table
    sendPhase,            \* each panel's position in sendMessage
    processes,            \* the process each panel's send spawned
    \* --- ProviderManager.sendMessage
    requested,            \* settings.provider of the last send
    \* --- ResponseClassifier.classify, SuggestionManager.generateSuggestions
    helper,               \* the call, its child process and its promise
    \* --- AgentContextManager.buildPromptContext
    agentContext,         \* the last call: budget, configuration, result
    \* --- SuggestionManager's processes
    suggestion            \* the processes spawned, _currentProcess, _warmProcess

permVars == <<sessionAccessLevel, config, requests, pendingRequests, resolvers,
              timeoutHandles, timers, nextId, promise, resolveCalls, posted,
              lastCall, upgraded>>

cliVars == <<currentProcess, pc, child, stdoutBuf, written, closeListener,
             hardTimer, graceTimers, exitCode, yielded, cancelled>>

lineVars == <<stdoutBytes, delivered, buffer, parsedLines, eof>>

parseVars == <<currentSessionId, activeToolCalls, resumedWith, fedLines, chunks>>

streamVars == <<lineVars, parseVars>>

promptVars == <<promptArgs, fullPrompt>>

\* the components beside the permission manager, the provider's send and
\* its stream
panelVars == <<providerProcess, panelProcesses, sendPhase, processes>>

auxVars == <<promptVars, panelVars, requested, helper, agentContext, suggestion>>

vars == <<permVars, cliVars, streamVars, auxVars>>

\* the three tables of the manager, the timers and the webview's inbox
tables == <<requests, pendingRequests, resolvers, timeoutHandles, timers, nextId,
            promise, resolveCalls, posted>>

\* ------------------------------------------------------------------------
\* PermissionManager: construction
\* ------------------------------------------------------------------------
InitPerm ==
    /\ sessionAccessLevel \in AccessLevels
    /\ config \in Configs
    /\ requests = [i \in ReqIds |-> NoRequest]
    /\ pendingRequests = {}
    /\ resolvers = {}
    /\ timeoutHandles = {}
    /\ timers = {}
    /\ nextId = 0
    /\ promise = [i \in ReqIds |-> "none"]
    /\ resolveCalls = [i \in ReqIds |-> 0]
    /\ posted = [i \in ReqIds |-> [request |-> 0, expired |-> 0]]
    /\ lastCall = NoCall
    /\ upgraded = FALSE

\* ------------------------------------------------------------------------
\* PermissionManager: helpers
\* ------------------------------------------------------------------------
\* _generateId: a fresh id for every request
GenerateId == nextId + 1

\* a promise settles on the first call of its resolve function; later calls
\* are ignored by the promise but are still calls
Settle(p, approved) ==
    IF p = "pending" THEN (IF approved THEN "true" ELSE "false") ELSE p

\* mutant: the resolver is invoked but left in the table
InvokeResolversKeep(ids, approved) ==
    /\ promise' = [i \in ReqIds |->
                     IF i \in ids \cap resolvers
                     THEN Settle(promise[i], approved) ELSE promise[i]]
    /\ resolveCalls' = [i \in ReqIds |->
                          IF i \in ids \cap resolvers
                          THEN resolveCalls[i] + 1 ELSE resolveCalls[i]]
    /\ resolvers' = resolvers

\* "const resolver = this._resolvers.get(id); if (resolver) { resolver(approved);
\*  this._resolvers.delete(id); }" for each id of a set
InvokeResolvers(ids, approved) ==
    /\ promise' = [i \in ReqIds |->
                     IF i \in ids \cap resolvers
                     THEN Settle(promise[i], approved) ELSE promise[i]]
    /\ resolveCalls' = [i \in ReqIds |->
                          IF i \in ids \cap resolvers
                          THEN resolveCalls[i] + 1 ELSE resolveCalls[i]]
    /\ resolvers' = resolvers \ ids

\* "const timeoutHandle = this._timeoutHandles.get(id); if (timeoutHandle) {
\*  clearTimeout(timeoutHandle); this._timeoutHandles.delete(id); }" for each id
ClearTimeouts(ids) ==
    /\ timers' = timers \ (ids \cap timeoutHandles)
    /\ timeoutHandles' = timeoutHandles \ ids

\* mutant: the level is compared with a misspelt literal
SessionAutoApprovesTypo(level) == level = "full_access"

\* "if (this._sessionAccessLevel === 'full-access') return true"
SessionAutoApproves(level) == level = "full-access"

\* mutant: the read check names the wrong action type
ReadAlwaysAllowedTypo(actionType) == actionType = "read"

\* "if (actionType === 'file-read') return true"
ReadAlwaysAllowed(actionType) == actionType = "file-read"

\* whether requestPermission arms a timer for the request it creates
ArmsTimer(cfg) == cfg.timeout > 0 /\ cfg.timeoutBehavior # "require-action"

\* mutant: only auto-reject denies
TimeoutApprovesUnlessReject(cfg) == cfg.timeoutBehavior # "auto-reject"

\* the result _handleTimeout resolves with
TimeoutApproves(cfg) == cfg.timeoutBehavior = "auto-accept"

\* the status handleResponse gives the request
StatusOf(decision) == IF decision = "deny" THEN "denied" ELSE "approved"

\* the value handleResponse resolves with
Approved(decision) == decision # "deny"

\* mutant: the decision is compared with a misspelt literal
UpgradesSessionTypo(decision) == decision = "always"

\* mutant: every approval upgrades the session
UpgradesSessionOnApprove(decision) == decision # "deny"

\* "if (response.decision === 'always-allow')": the session is upgraded
UpgradesSession(decision) == decision = "always-allow"

\* ------------------------------------------------------------------------
\* PermissionManager: operations
\* ------------------------------------------------------------------------
RequestPermission(actionType) ==
    /\ IF SessionAutoApproves(sessionAccessLevel)
       THEN /\ lastCall' = [op |-> "requestPermission", arg |-> actionType,
                            id |-> 0, ret |-> "true"]
            /\ UNCHANGED tables
       ELSE IF ReadAlwaysAllowed(actionType)
       THEN /\ lastCall' = [op |-> "requestPermission", arg |-> actionType,
                            id |-> 0, ret |-> "true"]
            /\ UNCHANGED tables
       ELSE /\ nextId < MaxReq
            /\ LET id == GenerateId IN
               /\ nextId' = id
               /\ requests' = [requests EXCEPT ![id] = [status |-> "pending"]]
               /\ pendingRequests' = pendingRequests \cup {id}
               /\ posted' = [posted EXCEPT ![id].request = @ + 1]
               /\ promise' = [promise EXCEPT ![id] = "pending"]
               /\ resolvers' = resolvers \cup {id}
               /\ IF ArmsTimer(config)
                  THEN /\ timers' = timers \cup {id}
                       /\ timeoutHandles' = timeoutHandles \cup {id}
                  ELSE UNCHANGED <<timers, timeoutHandles>>
               /\ lastCall' = [op |-> "requestPermission", arg |-> actionType,
                               id |-> id, ret |-> "promise"]
               /\ UNCHANGED resolveCalls
    /\ UNCHANGED <<sessionAccessLevel, config, upgraded>>
    /\ UNCHANGED <<cliVars, streamVars, auxVars>>

HandleResponse(requestId, decision) ==
    /\ lastCall' = [op |-> "handleResponse", arg |-> decision, id |-> requestId,
                    ret |-> "none"]
    /\ IF requestId \notin pendingRequests
       THEN UNCHANGED <<sessionAccessLevel, config, tables, upgraded>>
       ELSE /\ ClearTimeouts({requestId})
            /\ requests' = [requests EXCEPT ![requestId].status = StatusOf(decision)]
            /\ pendingRequests' = pendingRequests \ {requestId}
            /\ sessionAccessLevel' = IF UpgradesSession(decision)
                                     THEN "full-access" ELSE sessionAccessLevel
            /\ upgraded' = (upgraded \/ decision = "always-allow")
            /\ InvokeResolvers({requestId}, Approved(decision))
            /\ UNCHANGED <<config, nextId, posted>>
    /\ UNCHANGED <<cliVars, streamVars, auxVars>>

\* _handleTimeout, run by the timer armed in requestPermission
HandleTimeout(requestId) ==
    IF requestId \notin pendingRequests \/ requests[requestId].status # "pending"
    THEN UNCHANGED <<sessionAccessLevel, config, requests, pendingRequests,
                     resolvers, timeoutHandles, nextId, promise, resolveCalls,
                     posted, upgraded>>
    ELSE /\ requests' = [requests EXCEPT ![requestId].status = "expired"]
         /\ pendingRequests' = pendingRequests \ {requestId}
         /\ timeoutHandles' = timeoutHandles \ {requestId}
         /\ posted' = [posted EXCEPT ![requestId].expired = @ + 1]
         /\ InvokeResolvers({requestId}, TimeoutApproves(config))
         /\ UNCHANGED <<sessionAccessLevel, config, nextId, upgraded>>

\* the event loop runs an armed timer's callback
TimerFires(requestId) ==
    /\ requestId \in timers
    /\ timers' = timers \ {requestId}
    /\ lastCall' = [op |-> "timeout", arg |-> "none", id |-> requestId,
                    ret |-> "none"]
    /\ HandleTimeout(requestId)
    /\ UNCHANGED <<cliVars, streamVars, auxVars>>

\* mutant: cancellation forgets the timers
CancelEachLeavesTimers(ids) ==
    /\ requests' = [i \in ReqIds |->
                      IF i \in ids \cap pendingRequests
                      THEN [requests[i] EXCEPT !.status = "denied"]
                      ELSE requests[i]]
    /\ pendingRequests' = pendingRequests \ ids
    /\ UNCHANGED <<timers, timeoutHandles>>
    /\ InvokeResolvers(ids, FALSE)

\* cancelRequest applied to each id of a set; the calls touch disjoint entries
CancelEach(ids) ==
    /\ requests' = [i \in ReqIds |->
                      IF i \in ids \cap pendingRequests
                      THEN [requests[i] EXCEPT !.status = "denied"]
                      ELSE requests[i]]
    /\ pendingRequests' = pendingRequests \ ids
    /\ ClearTimeouts(ids)
    /\ InvokeResolvers(ids, FALSE)

CancelRequest(requestId) ==
    /\ lastCall' = [op |-> "cancelRequest", arg |-> "none", id |-> requestId,
                    ret |-> "none"]
    /\ CancelEach({requestId})
    /\ UNCHANGED <<sessionAccessLevel, config, nextId, posted, upgraded>>
    /\ UNCHANGED <<cliVars, streamVars, auxVars>>

\* "for (const requestId of this._pendingRequests.keys()) cancelRequest(requestId)"
CancelAllRequests ==
    /\ lastCall' = [op |-> "cancelAllRequests", arg |-> "none", id |-> 0,
                    ret |-> "none"]
    /\ CancelEach(pendingRequests)
    /\ UNCHANGED <<sessionAccessLevel, config, nextId, posted, upgraded>>
    /\ UNCHANGED <<cliVars, streamVars, auxVars>>

ResetSessionAccessLevel(level) ==
    /\ lastCall' = [op |-> "resetSessionAccessLevel", arg |-> level, id |-> 0,
                    ret |-> "none"]
    /\ sessionAccessLevel' = level
    /\ upgraded' = FALSE
    /\ UNCHANGED <<config, tables>>
    /\ UNCHANGED <<cliVars, streamVars, auxVars>>

\* refreshConfig: the settings are read again
RefreshConfig(cfg) ==
    /\ lastCall' = [op |-> "refreshConfig", arg |-> "none", id |-> 0,
                    ret |-> "none"]
    /\ config' = cfg
    /\ UNCHANGED <<sessionAccessLevel, tables, upgraded>>
    /\ UNCHANGED <<cliVars, streamVars, auxVars>>

NextPerm ==
    \/ \E t \in ActionTypes : RequestPermission(t)
    \/ \E i \in ReqIds, d \in Decisions : HandleResponse(i, d)
    \/ \E i \in ReqIds : TimerFires(i)
    \/ \E i \in ReqIds : CancelRequest(i)
    \/ CancelAllRequests
    \/ \E l \in AccessLevels : ResetSessionAccessLevel(l)
    \/ \E c \in Configs : RefreshConfig(c)

\* ------------------------------------------------------------------------
\* BaseCliProvider: the child process
\* ------------------------------------------------------------------------
Signals == {"SIGTERM", "SIGKILL"}

\* exit codes of a child: 0, non-zero, or null when a signal ended it
ExitCodes == {"0", "1", "null"}

NoChild == [alive |-> FALSE, ignoresTerm |-> FALSE, stdoutOpen |-> FALSE,
            killed |-> FALSE, sigterm |-> 0, sigkill |-> 0,
            closeEmitted |-> FALSE, code |-> "none", stderrOutput |-> ""]

\* the process ends: its descriptors are closed with it
Dead(c, code) == [c EXCEPT !.alive = FALSE, !.stdoutOpen = FALSE, !.code = code]

\* ChildProcess.kill(signal): the signal is sent if the process still runs, and
\* then .killed is set; .killed says the signal was sent, not that the process
\* ended.  SIGKILL ends the process, SIGTERM ends it unless the child ignores it.
Kill(c, signal) ==
    IF ~c.alive THEN c
    ELSE LET sent == [c EXCEPT !.killed = TRUE,
                               !.sigterm = IF signal = "SIGTERM" THEN @ + 1 ELSE @,
                               !.sigkill = IF signal = "SIGKILL" THEN @ + 1 ELSE @]
         IN IF signal = "SIGKILL" \/ ~c.ignoresTerm
            THEN Dead(sent, "null") ELSE sent

\* the stderr text processStream receives: sendMessage passes the string
\* stderrOutput by value when it is still empty
StderrCollector == ""

InitCli ==
    /\ currentProcess = FALSE
    /\ pc = "idle"
    /\ child = NoChild
    /\ stdoutBuf = 0
    /\ written = 0
    /\ closeListener = FALSE
    /\ hardTimer = FALSE
    /\ graceTimers = {}
    /\ exitCode = "none"
    /\ yielded = <<>>
    /\ cancelled = FALSE

\* ------------------------------------------------------------------------
\* processStream: bytes, decoding, lines
\* ------------------------------------------------------------------------
\* bytes of the child's UTF-8 output: an ASCII letter, a space, the newline
\* and the two bytes of one two-byte character
Bytes == {"a", " ", "\n", "C3", "A9"}

WellFormedUtf8(bs) ==
    \A i \in 1..Len(bs) :
        /\ bs[i] = "C3" => (i < Len(bs) /\ bs[i + 1] = "A9")
        /\ bs[i] = "A9" => (i > 1 /\ bs[i - 1] = "C3")

\* what a child can write: well-formed UTF-8 of at most MaxBytes bytes
Outputs ==
    {bs \in UNION {[1..n -> Bytes] : n \in 0..MaxBytes} : WellFormedUtf8(bs)}

\* chunk.toString(): one chunk decoded on its own; bytes that do not form a
\* complete character in this chunk become U+FFFD
RECURSIVE ChunkToString(_)
ChunkToString(bs) ==
    IF Len(bs) = 0 THEN <<>>
    ELSE IF bs[1] = "C3" /\ Len(bs) >= 2 /\ bs[2] = "A9"
         THEN <<"U+00E9">> \o ChunkToString(SubSeq(bs, 3, Len(bs)))
         ELSE IF bs[1] \in {"C3", "A9"}
              THEN <<"U+FFFD">> \o ChunkToString(Tail(bs))
              ELSE <<bs[1]>> \o ChunkToString(Tail(bs))

\* buffer.split('\n')
RECURSIVE Split(_)
Split(s) ==
    IF \A i \in 1..Len(s) : s[i] # "\n" THEN <<s>>
    ELSE LET i == CHOOSE k \in 1..Len(s) :
                      s[k] = "\n" /\ \A j \in 1..(k - 1) : s[j] # "\n"
         IN <<SubSeq(s, 1, i - 1)>> \o Split(SubSeq(s, i + 1, Len(s)))

\* line.trim() is the empty string
IsBlank(line) == \A i \in 1..Len(line) : line[i] = " "

\* the lines of a list that are parsed: `if (line.trim())`
NonBlank(lines) == SelectSeq(lines, LAMBDA l : ~IsBlank(l))

InitLinesWith(bs) ==
    /\ stdoutBytes = bs
    /\ delivered = 0
    /\ buffer = <<>>
    /\ parsedLines = <<>>
    /\ eof = FALSE

\* ------------------------------------------------------------------------
\* ProviderManager: session id and tool-call accumulators
\* ------------------------------------------------------------------------
NoSession == "null"

InitParse ==
    /\ currentSessionId = NoSession
    /\ activeToolCalls = <<>>
    /\ resumedWith = NoSession
    /\ fedLines = <<>>
    /\ chunks = <<>>

\* no prompt has been built
NoArgs ==
    [builder |-> "none", content |-> <<>>, context |-> 0, conversation |-> 0,
     isNull |-> TRUE, mode |-> "", persona |-> "", agent |-> ""]

InitPrompt ==
    /\ promptArgs = NoArgs
    /\ fullPrompt = <<>>

Panels == {"A", "B"}

NoProcess == [state |-> "none", killed |-> FALSE, sigterm |-> 0, listeners |-> {}]

InitPanels ==
    /\ providerProcess = "none"
    /\ panelProcesses = [p \in Panels |-> "none"]
    /\ sendPhase = [p \in Panels |-> "idle"]
    /\ processes = [p \in Panels |-> NoProcess]

\* no call of an AI-assisted feature yet
NoHelper ==
    [feature |-> "none", phase |-> "idle", output |-> <<>>, timer |-> FALSE,
     result |-> "none", cause |-> "none", sigterm |-> 0]

\* config.personaId is not set
NoPersona == [name |-> 0, description |-> 0, instructions |-> 0, firstTwo |-> 0]

\* buildPromptContext has not been called
NoContext ==
    [called |-> FALSE, budget |-> 0, persona |-> NoPersona, skills |-> <<>>,
     estimatedTokens |-> 0, includedPersona |-> FALSE, condensed |-> FALSE,
     includedSkills |-> <<>>, warnings |-> 0]

\* the processes SuggestionManager may spawn in one run
MaxProcs == 4

ProcIds == 1..MaxProcs

\* no process: null
NoProc == 0

Unspawned ==
    [state |-> "unspawned", warm |-> FALSE, request |-> "none",
     signalled |-> FALSE]

\* a process as spawn returns it; warm: spawned by _spawnWarmProcess, so its
\* 'close' and 'error' listeners of lines 66-78 are attached
Spawned(warm) ==
    [state |-> "running", warm |-> warm, request |-> "none",
     signalled |-> FALSE]

\* the constructor has pre-spawned the first warm process
InitSuggestion ==
    suggestion = [procs |-> [q \in ProcIds |->
                               IF q = 1 THEN Spawned(TRUE) ELSE Unspawned],
                  spawned |-> 1, currentProcess |-> NoProc, warmProcess |-> 1]

InitAux ==
    /\ InitPrompt
    /\ InitPanels
    /\ requested = "none"
    /\ helper = NoHelper
    /\ agentContext = NoContext
    /\ InitSuggestion

Init == InitPerm /\ InitCli /\ InitLinesWith(<<>>) /\ InitParse /\ InitAux

\* the settings' defaults: accessLevel ask-permission, permission.timeout 30,
\* permission.timeoutBehavior auto-reject
DefaultConfig == [timeout |-> 30, timeoutBehavior |-> "auto-reject"]

InitDefault ==
    /\ Init
    /\ sessionAccessLevel = "ask-permission"
    /\ config = DefaultConfig

\* ------------------------------------------------------------------------
\* BaseCliProvider: sendMessage, processStream, waitForProcess
\* ------------------------------------------------------------------------
\* sendMessage up to the for-await over stdout: spawn, keep the reference
StartSend(ignoresTerm) ==
    /\ pc = "idle"
    /\ child' = [NoChild EXCEPT !.alive = TRUE, !.stdoutOpen = TRUE,
                                !.ignoresTerm = ignoresTerm]
    /\ currentProcess' = TRUE
    /\ pc' = "stream"
    /\ UNCHANGED <<stdoutBuf, written, closeListener, hardTimer, graceTimers,
                   exitCode, yielded, cancelled>>
    /\ UNCHANGED <<permVars, streamVars, auxVars>>

\* the child writes a line to its stdout
ChildWrite ==
    /\ child.alive /\ child.stdoutOpen
    /\ written < MaxChunks
    /\ written' = written + 1
    /\ stdoutBuf' = stdoutBuf + 1
    /\ UNCHANGED <<currentProcess, pc, child, closeListener, hardTimer,
                   graceTimers, exitCode, yielded, cancelled>>
    /\ UNCHANGED <<permVars, streamVars, auxVars>>

\* the child closes its stdout and keeps running
ChildCloseStdout ==
    /\ child.alive /\ child.stdoutOpen
    /\ child' = [child EXCEPT !.stdoutOpen = FALSE]
    /\ UNCHANGED <<currentProcess, pc, stdoutBuf, written, closeListener,
                   hardTimer, graceTimers, exitCode, yielded, cancelled>>
    /\ UNCHANGED <<permVars, streamVars, auxVars>>

\* the child exits on its own
ChildExit(code) ==
    /\ child.alive
    /\ child' = Dead(child, code)
    /\ UNCHANGED <<currentProcess, pc, stdoutBuf, written, closeListener,
                   hardTimer, graceTimers, exitCode, yielded, cancelled>>
    /\ UNCHANGED <<permVars, streamVars, auxVars>>

\* processStream: one turn of "for await (const chunk of stdout)"; the line
\* is yielded when parseStreamLine returns a chunk
ReadChunk(parsed) ==
    /\ pc = "stream"
    /\ stdoutBuf > 0
    /\ stdoutBuf' = stdoutBuf - 1
    /\ yielded' = IF parsed THEN Append(yielded, "chunk") ELSE yielded
    /\ UNCHANGED <<currentProcess, pc, child, written, closeListener, hardTimer,
                   graceTimers, exitCode, cancelled>>
    /\ UNCHANGED <<permVars, streamVars, auxVars>>

\* processStream's hasYieldedContent
HasYieldedContent == \E i \in 1..Len(yielded) : yielded[i] = "chunk"

\* what is yielded once waitForProcess has resolved with `code`: processStream's
\* stderr-derived error chunk, if any, then sendMessage's done chunk
ChunksAfterExit(code) ==
    (IF code \notin {"0", "null"} /\ StderrCollector # ""
     THEN <<"error">>
     ELSE IF ~HasYieldedContent /\ StderrCollector # ""
          THEN <<"error">> ELSE <<>>)
    \o <<"done">>

\* processStream after the for-await loop ended (stdout reached its end):
\* waitForProcess resolves null at once when no process is referenced, else
\* it arms the hard timeout and listens for 'close'
StreamEnd ==
    /\ pc = "stream"
    /\ stdoutBuf = 0 /\ ~child.stdoutOpen
    /\ IF ~currentProcess
       THEN /\ exitCode' = "null"
            /\ yielded' = yielded \o ChunksAfterExit("null")
            /\ pc' = "yieldedLast"
            /\ UNCHANGED <<hardTimer, closeListener>>
       ELSE /\ hardTimer' = TRUE
            /\ closeListener' = TRUE
            /\ pc' = "wait"
            /\ UNCHANGED <<exitCode, yielded>>
    /\ UNCHANGED <<currentProcess, child, stdoutBuf, written, graceTimers,
                   cancelled>>
    /\ UNCHANGED <<permVars, streamVars, auxVars>>

\* the child's 'close' event: the process has ended and its stdio is closed.
\* waitForProcess's listener clears the hard timeout and resolves the code;
\* with no listener registered the event is lost
CloseEvent ==
    /\ ~child.alive /\ child.code # "none"
    /\ ~child.stdoutOpen /\ stdoutBuf = 0
    /\ ~child.closeEmitted
    /\ child' = [child EXCEPT !.closeEmitted = TRUE]
    /\ IF closeListener /\ pc = "wait"
       THEN /\ hardTimer' = FALSE
            /\ exitCode' = child.code
            /\ yielded' = yielded \o ChunksAfterExit(child.code)
            /\ pc' = "yieldedLast"
       ELSE IF closeListener
            THEN \* the promise is already rejected: resolve(code) is ignored
                 /\ hardTimer' = FALSE
                 /\ UNCHANGED <<exitCode, yielded, pc>>
            ELSE UNCHANGED <<hardTimer, exitCode, yielded, pc>>
    /\ UNCHANGED <<currentProcess, stdoutBuf, written, closeListener,
                   graceTimers, cancelled>>
    /\ UNCHANGED <<permVars, streamVars, auxVars>>

\* waitForProcess's PROCESS_TIMEOUT_MS callback: SIGTERM and a grace timer if a
\* process is referenced and not yet .killed, then reject; the rejection
\* reaches sendMessage's catch, which yields handleError's error chunk
HardTimeout ==
    /\ hardTimer
    /\ hardTimer' = FALSE
    /\ IF currentProcess /\ ~child.killed
       THEN /\ child' = Kill(child, "SIGTERM")
            /\ graceTimers' = graceTimers \cup {"wait"}
       ELSE UNCHANGED <<child, graceTimers>>
    /\ yielded' = Append(yielded, "error")
    /\ pc' = "yieldedLast"
    /\ UNCHANGED <<currentProcess, stdoutBuf, written, closeListener, exitCode,
                   cancelled>>
    /\ UNCHANGED <<permVars, streamVars, auxVars>>

\* the PROCESS_KILL_GRACE_PERIOD_MS callbacks: the one armed by waitForProcess
\* reads this._currentProcess, the one armed by finally its own processToKill
GraceFires(which) ==
    /\ which \in graceTimers
    /\ graceTimers' = graceTimers \ {which}
    /\ child' = IF (which = "wait" => currentProcess) /\ ~child.killed
                THEN Kill(child, "SIGKILL") ELSE child
    /\ UNCHANGED <<currentProcess, pc, stdoutBuf, written, closeListener,
                   hardTimer, exitCode, yielded, cancelled>>
    /\ UNCHANGED <<permVars, streamVars, auxVars>>

\* sendMessage's finally block, run when the consumer resumes the generator
\* after its last chunk
Finally ==
    /\ pc = "yieldedLast"
    /\ IF currentProcess /\ ~child.killed
       THEN /\ closeListener' = FALSE
            /\ child' = Kill(child, "SIGTERM")
            /\ graceTimers' = graceTimers \cup {"finally"}
       ELSE UNCHANGED <<closeListener, child, graceTimers>>
    /\ currentProcess' = FALSE
    /\ pc' = "ended"
    /\ UNCHANGED <<stdoutBuf, written, hardTimer, exitCode, yielded, cancelled>>
    /\ UNCHANGED <<permVars, streamVars, auxVars>>

\* the child writes to stderr and the 'data' listener of sendMessage appends
\* the text to its local stderrOutput
ChildWriteStderr ==
    /\ child.alive
    /\ pc \in {"stream", "wait"}
    /\ child.stderrOutput = ""
    /\ child' = [child EXCEPT !.stderrOutput = "boom"]
    /\ UNCHANGED <<currentProcess, pc, stdoutBuf, written, closeListener,
                   hardTimer, graceTimers, exitCode, yielded, cancelled>>
    /\ UNCHANGED <<permVars, streamVars, auxVars>>

\* sendMessage lines 506-511: getCliPath, buildCliArgs and buildPromptAsync
\* run before the try block; an exception there leaves the generator without
\* passing through catch or finally
BuildThrows ==
    /\ pc = "idle"
    /\ pc' = "threw"
    /\ UNCHANGED <<currentProcess, child, stdoutBuf, written, closeListener,
                   hardTimer, graceTimers, exitCode, yielded, cancelled>>
    /\ UNCHANGED <<permVars, streamVars, auxVars>>

\* spawn throws inside the try: no reference is kept, catch yields an error
SpawnThrows ==
    /\ pc = "idle"
    /\ yielded' = Append(yielded, "error")
    /\ pc' = "yieldedLast"
    /\ UNCHANGED <<currentProcess, child, stdoutBuf, written, closeListener,
                   hardTimer, graceTimers, exitCode, cancelled>>
    /\ UNCHANGED <<permVars, streamVars, auxVars>>

\* the for-await over stdout throws (read error): catch yields an error
StreamThrows ==
    /\ pc = "stream"
    /\ yielded' = Append(yielded, "error")
    /\ pc' = "yieldedLast"
    /\ UNCHANGED <<currentProcess, child, stdoutBuf, written, closeListener,
                   hardTimer, graceTimers, exitCode, cancelled>>
    /\ UNCHANGED <<permVars, streamVars, auxVars>>

\* waitForProcess: the 'error' listener clears the timer and rejects
ProcessError ==
    /\ pc = "wait"
    /\ closeListener
    /\ hardTimer' = FALSE
    /\ yielded' = Append(yielded, "error")
    /\ pc' = "yieldedLast"
    /\ UNCHANGED <<currentProcess, child, stdoutBuf, written, closeListener,
                   graceTimers, exitCode, cancelled>>
    /\ UNCHANGED <<permVars, streamVars, auxVars>>

CancelKeepsReference ==
    /\ IF currentProcess
       THEN /\ child' = Kill(child, "SIGTERM")
            /\ cancelled' = TRUE
            /\ UNCHANGED currentProcess
       ELSE UNCHANGED <<child, currentProcess, cancelled>>
    /\ UNCHANGED <<pc, stdoutBuf, written, closeListener, hardTimer,
                   graceTimers, exitCode, yielded>>
    /\ UNCHANGED <<permVars, streamVars, auxVars>>

CancelCurrentRequest ==
    /\ IF currentProcess
       THEN /\ child' = Kill(child, "SIGTERM")
            /\ currentProcess' = FALSE
            /\ cancelled' = TRUE
       ELSE UNCHANGED <<child, currentProcess, cancelled>>
    /\ UNCHANGED <<pc, stdoutBuf, written, closeListener, hardTimer,
                   graceTimers, exitCode, yielded>>
    /\ UNCHANGED <<permVars, streamVars, auxVars>>

NextCli ==
    \/ \E b \in BOOLEAN : StartSend(b)
    \/ ChildWrite
    \/ ChildCloseStdout
    \/ \E c \in {"0", "1"} : ChildExit(c)
    \/ \E b \in BOOLEAN : ReadChunk(b)
    \/ StreamEnd
    \/ CloseEvent
    \/ HardTimeout
    \/ \E w \in {"wait", "finally"} : GraceFires(w)
    \/ Finally
    \/ CancelCurrentRequest
    \/ BuildThrows
    \/ SpawnThrows
    \/ StreamThrows
    \/ ProcessError
    \/ ChildWriteStderr

\* ------------------------------------------------------------------------
\* processStream: the for-await over stdout
\* ------------------------------------------------------------------------
\* one iteration: stdout delivers the next n bytes as one chunk
ReceiveChunk(n) ==
    /\ ~eof
    /\ n >= 1 /\ delivered + n <= Len(stdoutBytes)
    /\ LET chunkStr ==
               ChunkToString(SubSeq(stdoutBytes, delivered + 1, delivered + n))
           lines == Split(buffer \o chunkStr)
       IN /\ buffer' = lines[Len(lines)]
          /\ parsedLines' =
                 parsedLines \o NonBlank(SubSeq(lines, 1, Len(lines) - 1))
    /\ delivered' = delivered + n
    /\ UNCHANGED <<stdoutBytes, eof>>
    /\ UNCHANGED <<permVars, cliVars, parseVars, auxVars>>

\* stdout has ended: the remaining buffer is parsed unless it is blank
EndOfStream ==
    /\ ~eof
    /\ delivered = Len(stdoutBytes)
    /\ parsedLines' = parsedLines \o NonBlank(<<buffer>>)
    /\ eof' = TRUE
    /\ UNCHANGED <<stdoutBytes, delivered, buffer>>
    /\ UNCHANGED <<permVars, cliVars, parseVars, auxVars>>

NextLines ==
    \/ \E n \in 1..MaxBytes : ReceiveChunk(n)
    \/ EndOfStream

\* a child's output, not yet read
InitLines ==
    /\ InitPerm
    /\ sessionAccessLevel = "ask-permission"
    /\ config = DefaultConfig
    /\ InitCli
    /\ InitParse
    /\ InitAux
    /\ \E bs \in Outputs : InitLinesWith(bs)

\* ------------------------------------------------------------------------
\* ProviderManager._parseStreamLine: records and chunks
\* ------------------------------------------------------------------------
SessionIds == {"s1", "s2"}

\* `index` of a content block
BlockIndexes == {0, 1}

\* partial_json fragments (quotes left out): two halves and a whole document
Fragments == {"{k:", "1}", "{k:1}"}

\* the texts JSON.parse accepts among the concatenations of fragments
ValidJson == {"{}", "{k:1}"}

\* input: {}
EmptyObject == "{}"

\* a stdout line that is not JSON, by its characters
NonJson(text) == [kind |-> "nonjson", text |-> text]

\* {"type":"stream_event","event":{"type":"content_block_start","index":i,
\*  "content_block":{"type":"tool_use","id":id,"name":name}}}
BlockStart(i, id, name) ==
    [kind |-> "content_block_start", index |-> i, id |-> id, name |-> name]

\* ... "content_block_delta","index":i,"delta":{"type":"input_json_delta",
\*  "partial_json":f}
InputJsonDelta(i, f) ==
    [kind |-> "input_json_delta", index |-> i, partial_json |-> f]

\* ... "content_block_delta","delta":{"type":"text_delta","text":t}
TextDelta(t) == [kind |-> "text_delta", text |-> t]

\* ... "content_block_stop","index":i
BlockStop(i) == [kind |-> "content_block_stop", index |-> i]

\* ... "message_stop"
MessageStop == [kind |-> "message_stop"]

\* {"type":"system","subtype":st,"session_id":sid}
System(st, sid) == [kind |-> "system", subtype |-> st, session_id |-> sid]

\* content blocks of assistant and user messages
ToolUseBlock(id, name, input) ==
    [type |-> "tool_use", id |-> id, name |-> name, input |-> input]

TextBlock == [type |-> "text"]

ToolResultBlock(id, isError) ==
    [type |-> "tool_result", tool_use_id |-> id, is_error |-> isError]

\* {"type":"assistant","message":{"content":[..]}}
Assistant(content) == [kind |-> "assistant", content |-> content]

\* {"type":"user","message":{"content":[..]}}
User(content) == [kind |-> "user", content |-> content]

\* {"type":"tool_result","tool_use_id":id,"is_error":isError}
DirectToolResult(id, isError) ==
    [kind |-> "tool_result", tool_use_id |-> id, is_error |-> isError]

NullChunk == [type |-> "null"]

TextChunk(content) == [type |-> "text", content |-> content]

ToolUseChunk(id, name, input) ==
    [type |-> "tool_use", id |-> id, name |-> name, input |-> input,
     status |-> "running"]

ToolResultChunk(id, status) ==
    [type |-> "tool_result", id |-> id, name |-> "", input |-> EmptyObject,
     status |-> status]

SessionActiveChunk(sid) == [type |-> "session_active", sessionId |-> sid]

\* name of the tool behind a call id, as the backend reports it
ToolName(id) == IF id = "toolu_a" THEN "Read" ELSE "Bash"

\* ------------------------------------------------------------------------
\* ProviderManager._parseStreamLine
\* ------------------------------------------------------------------------
\* Map.set and Map.delete on _activeToolCalls
MapSet(m, k, v) == [i \in DOMAIN m \cup {k} |-> IF i = k THEN v ELSE m[i]]

MapDelete(m, k) == [i \in DOMAIN m \ {k} |-> m[i]]

AccumulatePrepend(inputJson, fragment) == fragment \o inputJson

\* activeTool.inputJson += delta.partial_json
Accumulate(inputJson, fragment) == inputJson \o fragment

DeleteToolCallKeeps(active, index) == active

\* this._activeToolCalls.delete(blockIndex)
DeleteToolCall(active, index) == MapDelete(active, index)

\* parsedInput: {} unless the accumulated text is non-empty and parses
ParsedInput(inputJson) ==
    IF inputJson # "" /\ inputJson \in ValidJson THEN inputJson
    ELSE EmptyObject

ParseFailureDiscards(text) == NullChunk

\* the catch of _parseStreamLine: the line itself as text
ParseFailure(text) == IF ~IsBlank(text) THEN TextChunk(text) ELSE NullChunk

ResultStatusCompleted(isError) == "completed"

\* status: is_error ? 'failed' : 'completed'
ResultStatus(isError) == IF isError THEN "failed" ELSE "completed"

\* position of the first block of a type in a content array, 0 if none
FirstBlock(content, type) ==
    IF \E i \in 1..Len(content) : content[i].type = type
    THEN CHOOSE i \in 1..Len(content) :
             /\ content[i].type = type
             /\ \A j \in 1..(i - 1) : content[j].type # type
    ELSE 0

\* the chunk returned (NullChunk for null) and the fields after the call
ParseStreamLine(line, active, session) ==
    LET same(chunk) == [chunk |-> chunk, active |-> active, session |-> session]
    IN CASE line.kind = "nonjson" -> same(ParseFailure(line.text))
         [] line.kind = "text_delta" -> same(TextChunk(line.text))
         [] line.kind = "input_json_delta" ->
              IF line.index \in DOMAIN active
              THEN [chunk |-> NullChunk,
                    active |-> [active EXCEPT ![line.index].inputJson =
                                   Accumulate(@, line.partial_json)],
                    session |-> session]
              ELSE same(NullChunk)
         [] line.kind = "content_block_start" ->
              [chunk |-> ToolUseChunk(line.id, line.name, EmptyObject),
               active |-> MapSet(active, line.index,
                                 [id |-> line.id, name |-> line.name,
                                  inputJson |-> ""]),
               session |-> session]
         [] line.kind = "content_block_stop" ->
              IF line.index \in DOMAIN active
              THEN LET completedTool == active[line.index]
                   IN [chunk |-> ToolUseChunk(completedTool.id,
                                     completedTool.name,
                                     ParsedInput(completedTool.inputJson)),
                       active |-> DeleteToolCall(active, line.index),
                       session |-> session]
              ELSE same(NullChunk)
         [] line.kind = "message_stop" -> same(NullChunk)
         [] line.kind = "system" ->
              IF line.subtype = "init" /\ line.session_id # ""
                 /\ session = NoSession
              THEN [chunk |-> SessionActiveChunk(line.session_id),
                    active |-> active, session |-> line.session_id]
              ELSE same(NullChunk)
         [] line.kind = "assistant" ->
              LET i == FirstBlock(line.content, "tool_use")
              IN IF i = 0 THEN same(NullChunk)
                 ELSE same(ToolUseChunk(line.content[i].id,
                                        line.content[i].name,
                                        line.content[i].input))
         [] line.kind = "user" ->
              LET i == FirstBlock(line.content, "tool_result")
              IN IF i = 0 THEN same(NullChunk)
                 ELSE same(ToolResultChunk(line.content[i].tool_use_id,
                                           ResultStatus(line.content[i].is_error)))
         [] line.kind = "tool_result" ->
              same(ToolResultChunk(line.tool_use_id,
                                   ResultStatus(line.is_error)))

\* mutant: a parsed chunk overtakes the chunks yielded before it
ParseLineOvertakes(line) ==
    /\ Len(fedLines) < MaxLines
    /\ fedLines' = Append(fedLines, line)
    /\ IF line.kind = "nonjson" /\ IsBlank(line.text)
       THEN UNCHANGED <<chunks, activeToolCalls, currentSessionId>>
       ELSE LET r == ParseStreamLine(line, activeToolCalls, currentSessionId)
            IN /\ chunks' = IF r.chunk = NullChunk THEN chunks
                            ELSE <<r.chunk>> \o chunks
               /\ activeToolCalls' = r.active
               /\ currentSessionId' = r.session
    /\ UNCHANGED resumedWith
    /\ UNCHANGED <<permVars, cliVars, lineVars, auxVars>>

\* one complete line of the for-await loop: skipped when blank, else parsed,
\* and the result yielded unless it is null
ParseLine(line) ==
    /\ Len(fedLines) < MaxLines
    /\ fedLines' = Append(fedLines, line)
    /\ IF line.kind = "nonjson" /\ IsBlank(line.text)
       THEN UNCHANGED <<chunks, activeToolCalls, currentSessionId>>
       ELSE LET r == ParseStreamLine(line, activeToolCalls, currentSessionId)
            IN /\ chunks' = IF r.chunk = NullChunk THEN chunks
                            ELSE Append(chunks, r.chunk)
               /\ activeToolCalls' = r.active
               /\ currentSessionId' = r.session
    /\ UNCHANGED resumedWith
    /\ UNCHANGED <<permVars, cliVars, lineVars, auxVars>>

StartProcessFresh ==
    /\ resumedWith' = NoSession
    /\ fedLines' = <<>>
    /\ chunks' = <<>>
    /\ UNCHANGED <<currentSessionId, activeToolCalls>>
    /\ UNCHANGED <<permVars, cliVars, lineVars, auxVars>>

\* a send starts a process: it resumes the session known at that moment
StartProcess ==
    /\ resumedWith' = currentSessionId
    /\ fedLines' = <<>>
    /\ chunks' = <<>>
    /\ UNCHANGED <<currentSessionId, activeToolCalls>>
    /\ UNCHANGED <<permVars, cliVars, lineVars, auxVars>>

\* settings.provider: not set, the registered provider, two other ids
ProviderIds == {"", "claude-code", "openai-codex", "nope"}

\* { type: 'error', content: `Unknown provider: ${provider}` }
UnknownProviderChunk(provider) ==
    [type |-> "error", content |-> "Unknown provider: " \o provider]

\* ProviderManager.sendMessage: settings.provider || 'claude-code', then the
\* switch: _sendClaudeCodeMessage starts a process, any other id yields an
\* error chunk
SendMessage(id) ==
    LET provider == IF id = "" THEN "claude-code" ELSE id
    IN /\ requested' = id
       /\ IF provider = "claude-code"
          THEN /\ resumedWith' = currentSessionId
               /\ chunks' = <<>>
          ELSE /\ chunks' = <<UnknownProviderChunk(provider)>>
               /\ UNCHANGED resumedWith
       /\ fedLines' = <<>>
       /\ UNCHANGED <<currentSessionId, activeToolCalls>>
       /\ UNCHANGED <<permVars, cliVars, lineVars, promptVars, panelVars, helper,
                       agentContext, suggestion>>

ClearSession ==
    /\ currentSessionId' = NoSession
    /\ UNCHANGED <<activeToolCalls, resumedWith, fedLines, chunks>>
    /\ UNCHANGED <<permVars, cliVars, lineVars, auxVars>>

\* --- the lines a backend may write, grouped by what they exercise
ToolCallIds == {"toolu_a", "toolu_b"}

\* tool-call blocks: two calls on index 0, one on index 1, their fragments
ToolLines ==
    {BlockStart(0, "toolu_a", ToolName("toolu_a")),
     BlockStart(0, "toolu_b", ToolName("toolu_b")),
     BlockStart(1, "toolu_b", ToolName("toolu_b"))}
    \cup {InputJsonDelta(0, f) : f \in Fragments}
    \cup {InputJsonDelta(1, "{k:1}")}
    \cup {BlockStop(i) : i \in BlockIndexes}

\* plain text, a blank line and broken JSON among JSON records
TextLines ==
    {NonJson(<<"H", "i">>), NonJson(<<"{", "a">>), NonJson(<<" ">>),
     TextDelta(<<"o", "k">>), MessageStop,
     BlockStart(0, "toolu_a", ToolName("toolu_a")), BlockStop(0)}

\* complete assistant and user messages next to the block events
RecordLines ==
    {BlockStart(0, "toolu_a", ToolName("toolu_a")),
     BlockStart(1, "toolu_b", ToolName("toolu_b")),
     BlockStop(0), BlockStop(1),
     Assistant(<<TextBlock, ToolUseBlock("toolu_a", "Read", EmptyObject)>>),
     Assistant(<<ToolUseBlock("toolu_a", "Read", EmptyObject),
                 ToolUseBlock("toolu_b", "Bash", EmptyObject)>>),
     User(<<ToolResultBlock("toolu_a", FALSE)>>),
     User(<<ToolResultBlock("toolu_a", FALSE),
            ToolResultBlock("toolu_b", FALSE)>>),
     DirectToolResult("toolu_b", FALSE)}

\* system records: init with a session id, init without one, another subtype
SessionLines ==
    {System("init", sid) : sid \in SessionIds \cup {""}}
    \cup {System("status", "s2"), TextDelta(<<"o", "k">>)}

\* tool_result records, direct and inside user messages, failed or not
ResultLines ==
    {DirectToolResult(id, e) : id \in ToolCallIds, e \in BOOLEAN}
    \cup {User(<<ToolResultBlock("toolu_a", TRUE)>>),
          BlockStart(0, "toolu_a", ToolName("toolu_a"))}

NextResults == \E l \in ResultLines : ParseLine(l)

NextTool == \E l \in ToolLines : ParseLine(l)

NextText == \E l \in TextLines : ParseLine(l)

NextRecords == \E l \in RecordLines : ParseLine(l)

NextProviders ==
    \/ \E id \in ProviderIds : SendMessage(id)
    \/ \E l \in {System("init", "s1"), TextDelta(<<"o", "k">>)} : ParseLine(l)
    \/ ClearSession

NextSession ==
    \/ \E l \in SessionLines : ParseLine(l)
    \/ StartProcess
    \/ ClearSession

\* ------------------------------------------------------------------------
\* BaseCliProvider.buildPromptAsync / buildPrompt and the prompt of
\* ProviderManager._sendClaudeCodeMessage.  A prompt is the sequence of its
\* parts; each part but the message and the directive is followed by '\n\n'.
\* ------------------------------------------------------------------------
\* conversation.messages.slice(-10)
HistoryWindow == 10

Chars == {"/", " ", "x"}

Contents == UNION {[1..n -> Chars] : n \in 0..MaxContentLen}

Modes == {"ask-before-edit", "edit-automatically", "plan", "quick-plan",
          "brainstorm"}

\* undefined, a type without a prompt, a type with one, a custom prompt
Personas == {"none", "neutral", "architect", "custom"}

\* what buildAgentInstructionsAsync returns: nothing, or instructions
AgentInstructions == {"", "agent"}

RECURSIVE TrimStart(_)
TrimStart(s) ==
    IF s # <<>> /\ Head(s) = " " THEN TrimStart(Tail(s)) ELSE s

RECURSIVE TrimEnd(_)
TrimEnd(s) ==
    IF s # <<>> /\ s[Len(s)] = " "
    THEN TrimEnd(SubSeq(s, 1, Len(s) - 1))
    ELSE s

\* String.prototype.trim
Trim(s) == TrimEnd(TrimStart(s))

\* content.trim().startsWith('/')
IsSlashCommand(content) ==
    LET t == Trim(content) IN t # <<>> /\ Head(t) = "/"

\* the i-th message of a conversation: roles alternate, content is i
Message(i) ==
    [role |-> IF i % 2 = 1 THEN "user" ELSE "assistant", content |-> i]

Messages(n) == [i \in 1..n |-> Message(i)]

Conversations ==
    {[isNull |-> TRUE, messages |-> <<>>]}
    \cup {[isNull |-> FALSE, messages |-> Messages(n)] : n \in 0..MaxMessages}

FirstMessages(msgs) ==
    SubSeq(msgs, 1, IF Len(msgs) <= HistoryWindow THEN Len(msgs)
                    ELSE HistoryWindow)

\* messages.slice(-10)
LastMessages(msgs) ==
    IF Len(msgs) <= HistoryWindow
    THEN msgs
    ELSE SubSeq(msgs, Len(msgs) - HistoryWindow + 1, Len(msgs))

\* '# Previous Conversation' and one '**Role:** content' entry per message
FormatConversationHistory(conversation) ==
    LET last == LastMessages(conversation.messages)
    IN [part |-> "history",
        entries |-> [i \in 1..Len(last) |->
                        [role |-> IF last[i].role = "user"
                                  THEN "User" ELSE "Assistant",
                         content |-> last[i].content]]]

\* '# Context Files' and one section per item
FormatContext(context) == [part |-> "context", items |-> context]

GetPersonaPrompt(persona) ==
    CASE persona = "custom" -> "[Custom Persona]"
      [] persona = "architect" -> "[Persona: Architect]"
      [] OTHER -> ""

\* agent instructions take precedence over the persona
InstructionsPart(persona, agent) ==
    IF agent # ""
    THEN <<[part |-> "instructions", prompt |-> agent]>>
    ELSE IF persona # "none" /\ GetPersonaPrompt(persona) # ""
         THEN <<[part |-> "instructions", prompt |-> GetPersonaPrompt(persona)]>>
         ELSE <<>>

ContextPart(context) ==
    IF context > 0 THEN <<FormatContext(context)>> ELSE <<>>

HistoryPart(conversation) ==
    IF ~conversation.isNull /\ Len(conversation.messages) > 0
    THEN <<FormatConversationHistory(conversation)>>
    ELSE <<>>

MessagePart(text) == [part |-> "message", text |-> text]

ModePart(mode) == [part |-> "mode", mode |-> mode]

\* buildPromptAsync, buildPrompt
BuildPromptAsync(content, context, conversation, mode, persona, agent) ==
    IF IsSlashCommand(content)
    THEN <<MessagePart(Trim(content))>>
    ELSE InstructionsPart(persona, agent)
         \o ContextPart(context)
         \o HistoryPart(conversation)
         \o <<MessagePart(content)>>
         \o (IF mode = "quick-plan" THEN <<ModePart(mode)>> ELSE <<>>)

\* ProviderManager._addModeInstructions
AddModeInstructions(prompt, mode) ==
    IF mode \in {"ask-before-edit", "edit-automatically", "plan", "brainstorm"}
    THEN Append(prompt, ModePart(mode))
    ELSE prompt

\* the prompt of ProviderManager._sendClaudeCodeMessage
SendClaudeCodePrompt(content, context, conversation, mode) ==
    AddModeInstructions(ContextPart(context)
                        \o HistoryPart(conversation)
                        \o <<MessagePart(content)>>,
                        mode)

\* BaseCliProvider.sendMessage builds the prompt of a send (one call is
\* followed: the function keeps no state between calls)
BuildPrompt(content, context, conversation, mode, persona, agent) ==
    /\ promptArgs.builder = "none"
    /\ promptArgs' = [builder |-> "BaseCliProvider", content |-> content,
                      context |-> context,
                      conversation |-> Len(conversation.messages),
                      isNull |-> conversation.isNull, mode |-> mode,
                      persona |-> persona, agent |-> agent]
    /\ fullPrompt' = BuildPromptAsync(content, context, conversation, mode,
                                      persona, agent)
    /\ UNCHANGED <<permVars, cliVars, streamVars, panelVars, requested, helper,
                 agentContext, suggestion>>

\* ProviderManager._sendClaudeCodeMessage builds the prompt of a send
BuildLegacyPrompt(content, context, conversation, mode) ==
    /\ promptArgs.builder = "none"
    /\ promptArgs' = [builder |-> "ProviderManager", content |-> content,
                      context |-> context,
                      conversation |-> Len(conversation.messages),
                      isNull |-> conversation.isNull, mode |-> mode,
                      persona |-> "none", agent |-> ""]
    /\ fullPrompt' = SendClaudeCodePrompt(content, context, conversation, mode)
    /\ UNCHANGED <<permVars, cliVars, streamVars, panelVars, requested, helper,
                 agentContext, suggestion>>

NextPrompt ==
    /\ promptArgs.builder = "none"
    /\ \/ \E content \in Contents, context \in 0..1,
             conversation \in Conversations, mode \in Modes,
             persona \in Personas, agent \in AgentInstructions :
             BuildPrompt(content, context, conversation, mode, persona, agent)
       \/ \E content \in Contents, context \in 0..1,
             conversation \in Conversations, mode \in Modes :
             BuildLegacyPrompt(content, context, conversation, mode)

\* ------------------------------------------------------------------------
\* Two panels sending through the same provider object: sendMessage,
\* processStream, waitForProcess and the finally block act on the provider's
\* one _currentProcess field; the per-panel table is what registerProcess
\* and clearProcess are called on.  A process is named after the panel whose
\* send spawned it; each panel sends once.
\* ------------------------------------------------------------------------
\* child.kill('SIGTERM'): delivered, and killed set, while the process runs
KillProcess(procs, q) ==
    IF procs[q].state = "running"
    THEN [procs EXCEPT ![q].killed = TRUE, ![q].sigterm = @ + 1]
    ELSE procs

\* registerProcess(panelId, process)
RegisterProcess(table, p, q) == [table EXCEPT ![p] = q]

\* clearProcess(panelId)
ClearProcess(table, p) == [table EXCEPT ![p] = "none"]

\* spawn, registerProcess, stdin, and processStream takes the new process's
\* stdout, all in one run
PanelSend(p) ==
    /\ sendPhase[p] = "idle"
    /\ processes' = [processes EXCEPT ![p] =
                        [state |-> "running", killed |-> FALSE, sigterm |-> 0,
                         listeners |-> {}]]
    /\ providerProcess' = p
    /\ panelProcesses' = RegisterProcess(panelProcesses, p, p)
    /\ sendPhase' = [sendPhase EXCEPT ![p] = "stream"]
    /\ UNCHANGED <<permVars, cliVars, streamVars, promptVars, requested, helper,
                 agentContext, suggestion>>

\* a process exits, by itself or after a signal; its stdout ends
ProcessExit(q) ==
    /\ processes[q].state = "running"
    /\ processes' = [processes EXCEPT ![q].state = "exited"]
    /\ UNCHANGED <<providerProcess, panelProcesses, sendPhase>>
    /\ UNCHANGED <<permVars, cliVars, streamVars, promptVars, requested, helper,
                 agentContext, suggestion>>

\* 'close' is emitted: the listeners registered on the process resolve the
\* waitForProcess promises of their sends
ProcessClose(q) ==
    /\ processes[q].state = "exited"
    /\ processes' = [processes EXCEPT ![q].state = "closed"]
    /\ sendPhase' = [p \in Panels |->
                        IF p \in processes[q].listeners /\ sendPhase[p] = "wait"
                        THEN "finishing" ELSE sendPhase[p]]
    /\ UNCHANGED <<providerProcess, panelProcesses>>
    /\ UNCHANGED <<permVars, cliVars, streamVars, promptVars, requested, helper,
                 agentContext, suggestion>>

\* the for-await over the send's own stdout ends; waitForProcess reads
\* this._currentProcess: resolve(null) when it is null, else a timer and a
\* 'close' listener on the process the field references now
PanelStreamEnd(p) ==
    /\ sendPhase[p] = "stream"
    /\ processes[p].state \in {"exited", "closed"}
    /\ IF providerProcess = "none"
       THEN /\ sendPhase' = [sendPhase EXCEPT ![p] = "finishing"]
            /\ UNCHANGED processes
       ELSE /\ sendPhase' = [sendPhase EXCEPT ![p] = "wait"]
            /\ processes' = [processes EXCEPT
                                ![providerProcess].listeners = @ \cup {p}]
    /\ UNCHANGED <<providerProcess, panelProcesses>>
    /\ UNCHANGED <<permVars, cliVars, streamVars, promptVars, requested, helper,
                 agentContext, suggestion>>

\* waitForProcess's PROCESS_TIMEOUT_MS callback: SIGTERM to
\* this._currentProcess unless killed, then reject
PanelTimeout(p) ==
    /\ sendPhase[p] = "wait"
    /\ processes' = IF providerProcess # "none"
                       /\ ~processes[providerProcess].killed
                    THEN KillProcess(processes, providerProcess)
                    ELSE processes
    /\ sendPhase' = [sendPhase EXCEPT ![p] = "finishing"]
    /\ UNCHANGED <<providerProcess, panelProcesses>>
    /\ UNCHANGED <<permVars, cliVars, streamVars, promptVars, requested, helper,
                 agentContext, suggestion>>

PanelFinallyKeepsReference(p) ==
    /\ sendPhase[p] \in {"stream", "finishing"}
    /\ UNCHANGED <<processes, providerProcess>>
    /\ panelProcesses' = ClearProcess(panelProcesses, p)
    /\ sendPhase' = [sendPhase EXCEPT ![p] = "done"]
    /\ UNCHANGED <<permVars, cliVars, streamVars, promptVars, requested, helper,
                 agentContext, suggestion>>

\* the finally block: removeAllListeners and SIGTERM on this._currentProcess
\* unless killed, the field set to null, clearProcess(panelId).  It runs
\* after done or the error chunk, and when the consumer abandons the
\* generator while it is suspended on a yield of the stream
PanelFinally(p) ==
    /\ sendPhase[p] \in {"stream", "finishing"}
    /\ processes' = IF providerProcess # "none"
                       /\ ~processes[providerProcess].killed
                    THEN KillProcess([processes EXCEPT
                                         ![providerProcess].listeners = {}],
                                     providerProcess)
                    ELSE processes
    /\ providerProcess' = "none"
    /\ panelProcesses' = ClearProcess(panelProcesses, p)
    /\ sendPhase' = [sendPhase EXCEPT ![p] = "done"]
    /\ UNCHANGED <<permVars, cliVars, streamVars, promptVars, requested, helper,
                 agentContext, suggestion>>

\* cancelling a panel's request: the table's entry is read, its process is
\* signalled, the entry is removed
CancelPanel(p) ==
    /\ panelProcesses[p] # "none"
    /\ processes' = KillProcess(processes, panelProcesses[p])
    /\ panelProcesses' = ClearProcess(panelProcesses, p)
    /\ UNCHANGED <<providerProcess, sendPhase>>
    /\ UNCHANGED <<permVars, cliVars, streamVars, promptVars, requested, helper,
                 agentContext, suggestion>>

NextPanels ==
    \/ \E p \in Panels : PanelSend(p)
    \/ \E q \in Panels : ProcessExit(q)
    \/ \E q \in Panels : ProcessClose(q)
    \/ \E p \in Panels : PanelStreamEnd(p)
    \/ \E p \in Panels : PanelTimeout(p)
    \/ \E p \in Panels : PanelFinally(p)
    \/ \E p \in Panels : CancelPanel(p)

\* ------------------------------------------------------------------------
\* ResponseClassifier.classify / _callClaude / _parseResponse and
\* SuggestionManager.generateSuggestions / _callClaude: one call, its child
\* process and the promise the caller awaits.  The process's output is a
\* sequence of characters; the only JSON over them is nested empty arrays
\* and empty objects.
\* ------------------------------------------------------------------------
OutputChars == {" ", "x", "{", "}", "[", "]"}

AllSpaces(s) == \A i \in 1..Len(s) : s[i] = " "

\* JSON.parse accepts the text
RECURSIVE IsJson(_)
IsJson(s) ==
    LET t == Trim(s)
        inner == SubSeq(t, 2, Len(t) - 1)
    IN /\ Len(t) >= 2
       /\ \/ t[1] = "{" /\ t[Len(t)] = "}" /\ AllSpaces(inner)
          \/ t[1] = "[" /\ t[Len(t)] = "]" /\ (AllSpaces(inner) \/ IsJson(inner))

\* output.match(/open[\s\S]*close/): from the first open to the last close
Match(s, open, close) ==
    LET opens == {i \in 1..Len(s) : s[i] = open}
        closes == {i \in 1..Len(s) : s[i] = close}
        first == CHOOSE i \in opens : \A j \in opens : i <= j
        last == CHOOSE i \in closes : \A j \in closes : j <= i
    IN IF opens = {} \/ closes = {} THEN <<>>
       ELSE IF first < last THEN SubSeq(s, first, last) ELSE <<>>

ClassifierCloseNoCatch(code, output) ==
    IF code = 0 /\ Trim(output) # <<>>
    THEN IF Match(output, "{", "}") # <<>> /\ IsJson(Match(output, "{", "}"))
         THEN "parsed" ELSE "rejected"
    ELSE "neutral"

\* the classifier's 'close' handler: _parseResponse's result when the exit
\* code is 0, the output is not blank and it parses; the neutral
\* classification { questions: [], planOptions: [], context: content }
\* otherwise (the parse is inside try/catch)
ClassifierClose(code, output) ==
    IF code = 0 /\ Trim(output) # <<>>
    THEN IF Match(output, "{", "}") # <<>> /\ IsJson(Match(output, "{", "}"))
         THEN "parsed" ELSE "neutral"
    ELSE "neutral"

\* the number of suggestions the 'close' handler resolves with, -1 when it
\* rejects
SuggestionsOf(code, output) ==
    IF code = 0 /\ Trim(output) # <<>>
    THEN LET m == Match(output, "[", "]")
         IN IF m # <<>> /\ IsJson(m)
            THEN IF AllSpaces(SubSeq(m, 2, Len(m) - 1)) THEN 0 ELSE 1
            ELSE -1
    ELSE -1

\* generateSuggestions: the suggestions when there are some, else it throws
SuggestionsClose(code, output) ==
    IF SuggestionsOf(code, output) > 0 THEN "suggestions" ELSE "rejected"

\* a promise settles once: later resolve and reject calls are ignored
SettlePromise(h, result, cause) ==
    IF h.result = "pending"
    THEN [h EXCEPT !.result = result, !.cause = cause]
    ELSE h

\* classify(content): content.length < 50 returns the neutral result at
\* once; else _callClaude spawns the process and arms the 15 s timer
Classify(short) ==
    /\ helper.feature = "none"
    /\ helper' = IF short
                 THEN [NoHelper EXCEPT !.feature = "classify",
                                       !.phase = "closed",
                                       !.result = "neutral", !.cause = "short"]
                 ELSE [NoHelper EXCEPT !.feature = "classify",
                                       !.phase = "running", !.timer = TRUE,
                                       !.result = "pending"]
    /\ UNCHANGED <<permVars, cliVars, streamVars, promptVars, panelVars, requested,
                 agentContext, suggestion>>

\* generateSuggestions: _callClaude spawns the process, arms the 10 s timer
GenerateSuggestions ==
    /\ helper.feature = "none"
    /\ helper' = [NoHelper EXCEPT !.feature = "suggest", !.phase = "running",
                                  !.timer = TRUE, !.result = "pending"]
    /\ UNCHANGED <<permVars, cliVars, streamVars, promptVars, panelVars, requested,
                 agentContext, suggestion>>

\* stdout 'data': output += data.toString()
HelperData(c) ==
    /\ helper.phase = "running"
    /\ Len(helper.output) < MaxOutputLen
    /\ helper' = [helper EXCEPT !.output = Append(@, c)]
    /\ UNCHANGED <<permVars, cliVars, streamVars, promptVars, panelVars, requested,
                 agentContext, suggestion>>

\* the timer: SIGTERM, then resolve(neutral) in the classifier and
\* reject(new Error('Timeout')) in the suggestion manager
HelperTimeout ==
    /\ helper.phase = "running"
    /\ helper.timer
    /\ helper' = SettlePromise([helper EXCEPT !.timer = FALSE, !.sigterm = @ + 1],
                               IF helper.feature = "classify"
                               THEN "neutral" ELSE "rejected",
                               "timeout")
    /\ UNCHANGED <<permVars, cliVars, streamVars, promptVars, panelVars, requested,
                 agentContext, suggestion>>

\* 'close': clearTimeout, then the outcome from the exit code and the output
HelperClose(code) ==
    /\ helper.phase = "running"
    /\ helper' = SettlePromise([helper EXCEPT !.timer = FALSE, !.phase = "closed"],
                               IF helper.feature = "classify"
                               THEN ClassifierClose(code, helper.output)
                               ELSE SuggestionsClose(code, helper.output),
                        IF code = 0 THEN "exit0" ELSE "exit1")
    /\ UNCHANGED <<permVars, cliVars, streamVars, promptVars, panelVars, requested,
                 agentContext, suggestion>>

\* 'error' (the CLI cannot be spawned): clearTimeout, resolve(neutral) in
\* the classifier and reject(err) in the suggestion manager
HelperError ==
    /\ helper.phase = "running"
    /\ helper.output = <<>>
    /\ helper' = SettlePromise([helper EXCEPT !.timer = FALSE, !.phase = "closed"],
                               IF helper.feature = "classify"
                               THEN "neutral" ELSE "rejected",
                               "error")
    /\ UNCHANGED <<permVars, cliVars, streamVars, promptVars, panelVars, requested,
                 agentContext, suggestion>>

NextHelper ==
    \/ \E short \in BOOLEAN : Classify(short)
    \/ GenerateSuggestions
    \/ \E c \in OutputChars : HelperData(c)
    \/ HelperTimeout
    \/ \E code \in {0, 1} : HelperClose(code)
    \/ HelperError

\* ------------------------------------------------------------------------
\* AgentContextManager.buildPromptContext: texts are modelled by their
\* lengths in characters, tokens are estimated from the lengths.
\* ------------------------------------------------------------------------
\* _tokensPerChar = 0.25
CharsPerToken == 4

\* Math.ceil(text.length * this._tokensPerChar)
EstimateTokens(length) == (length + CharsPerToken - 1) \div CharsPerToken

\* a persona: lengths of its name, its description, its instructions and of
\* the first two sentences of the instructions
PersonaConfigs ==
    {[name |-> n, description |-> d, instructions |-> i, firstTwo |-> f] :
        n \in {1, 4}, d \in {0, 8}, i \in {0, 8, 40}, f \in {0, 8}}

AgentPersonas == {p \in PersonaConfigs : p.firstTwo <= p.instructions}

\* a skill: lengths of its name and its instructions
AgentSkills ==
    {[name |-> n, instructions |-> i] : n \in {1}, i \in {0, 20, 60}}

SkillLists == UNION {[1..k -> AgentSkills] : k \in 0..MaxSkills}

Budgets == {0, 5, 10, 20, 40}

\* '\n[Agent Persona: name]\n' description '\n\n' 'Key Characteristics:\n'
\* instructions '\n' ... '\n'
BuildPersonaPrompt(persona) ==
    19 + persona.name + persona.description + 2 + 21 + persona.instructions + 2

\* '[Persona: name] ' description '. ' two sentences '.' '\n\n'
BuildCondensedPersonaPrompt(persona) ==
    12 + persona.name + persona.description + 2 + persona.firstTwo + 3

\* '[Skill: name]\n' instructions '\n\n'
BuildSkillPrompt(skill) == 10 + skill.name + skill.instructions + 2

Fits(budget, total, tokens) == budget = 0 \/ total + tokens <= budget

\* the persona step: the full prompt when it fits, the condensed one
\* otherwise
WithPersona(budget, persona) ==
    LET full == EstimateTokens(BuildPersonaPrompt(persona))
        condensed == EstimateTokens(BuildCondensedPersonaPrompt(persona))
    IN IF Fits(budget, 0, full)
       THEN [total |-> full, condensed |-> FALSE]
       ELSE [total |-> condensed, condensed |-> TRUE]

\* the skill loop: a skill is included when it fits the remaining budget
RECURSIVE WithSkills(_, _, _, _)
WithSkills(budget, total, included, skills) ==
    IF skills = <<>>
    THEN [total |-> total, included |-> included]
    ELSE LET tokens == EstimateTokens(BuildSkillPrompt(Head(skills)))
         IN IF Fits(budget, total, tokens)
            THEN WithSkills(budget, total + tokens,
                            Append(included, Head(skills)), Tail(skills))
            ELSE WithSkills(budget, total, included, Tail(skills))

\* buildPromptContext(config) under agents.maxTokenBudget = budget
BuildPromptContext(budget, persona, skills) ==
    LET first == IF persona = NoPersona
                 THEN [total |-> 0, condensed |-> FALSE]
                 ELSE WithPersona(budget, persona)
        rest == WithSkills(budget, first.total, <<>>, skills)
    IN /\ ~agentContext.called
       /\ agentContext' =
             [called |-> TRUE, budget |-> budget, persona |-> persona,
              skills |-> skills, estimatedTokens |-> rest.total,
              includedPersona |-> persona # NoPersona,
              condensed |-> first.condensed,
              includedSkills |-> rest.included,
              warnings |-> (IF first.condensed THEN 1 ELSE 0)
                           + Len(skills) - Len(rest.included)]
       /\ UNCHANGED <<permVars, cliVars, streamVars, promptVars, panelVars,
                      requested, helper, suggestion>>

NextContext ==
    /\ ~agentContext.called
    /\ \E budget \in Budgets, skills \in SkillLists :
          \/ BuildPromptContext(budget, NoPersona, skills)
          \/ \E persona \in AgentPersonas :
                BuildPromptContext(budget, persona, skills)

\* ------------------------------------------------------------------------
\* Specifications
\* ------------------------------------------------------------------------
\* the permission state machine
SpecPerm == Init /\ [][NextPerm]_vars

\* the permission state machine with the event loop running armed timers
SpecPermFair == SpecPerm /\ \A i \in ReqIds : WF_vars(TimerFires(i))

\* one send of a CLI provider
SpecCli == InitDefault /\ [][NextCli]_vars

\* one send, with the host's own steps (stream reads, event delivery, timers,
\* the consumer resuming the generator) eventually taken; nothing is assumed
\* of the child or of callers of cancelCurrentRequest
SpecCliFair ==
    /\ SpecCli
    /\ WF_vars(\E b \in BOOLEAN : ReadChunk(b))
    /\ WF_vars(StreamEnd)
    /\ WF_vars(CloseEvent)
    /\ WF_vars(HardTimeout)
    /\ WF_vars(\E w \in {"wait", "finally"} : GraceFires(w))
    /\ WF_vars(Finally)

\* the reassembly of one child's stdout into lines
SpecLines == InitLines /\ [][NextLines]_vars

\* the line parser on one process's lines: tool-call blocks
SpecTool == InitDefault /\ [][NextTool]_vars

\* the line parser on one process's lines: text and non-JSON lines
SpecText == InitDefault /\ [][NextText]_vars

\* the line parser on one process's lines: blocks and complete messages
SpecRecords == InitDefault /\ [][NextRecords]_vars

\* the line parser on one process's lines: tool_result records
SpecResults == InitDefault /\ [][NextResults]_vars

\* the prompt builders over their arguments
SpecPrompt == InitDefault /\ [][NextPrompt]_vars

\* two panels' sends through one provider
SpecPanels == InitDefault /\ [][NextPanels]_vars

\* sends routed by settings.provider, and the lines of their processes
SpecProviders == InitDefault /\ [][NextProviders]_vars

\* one call of an AI-assisted feature
SpecHelper == InitDefault /\ [][NextHelper]_vars

\* buildPromptContext over budgets and agent configurations
SpecContext == InitDefault /\ [][NextContext]_vars

\* the session id over several processes and clearSession calls
SpecSession == InitDefault /\ [][NextSession]_vars

Next == NextPerm \/ NextCli

Spec == Init /\ [][Next]_vars

\* ------------------------------------------------------------------------
\* Properties of the permission state machine
\* ------------------------------------------------------------------------
\* a request that exists and is no longer pending
Resolved(i) == i <= nextId /\ i \notin pendingRequests

\* C1: each request's resolver is invoked exactly once: never twice, not at all
\* while the request is pending, and once when it has left the pending set; a
\* resolved request is out of the pending set and no later response, timeout
\* or cancellation for its id resolves anything or posts another message.
C1_ResolvedExactlyOnce ==
    /\ [](\A i \in ReqIds :
            /\ resolveCalls[i] <= 1
            /\ i \in pendingRequests => resolveCalls[i] = 0 /\ promise[i] = "pending"
            /\ Resolved(i) => resolveCalls[i] = 1 /\ promise[i] \in {"true", "false"})
    /\ [][\A i \in ReqIds :
            resolveCalls[i] >= 1 =>
                /\ i \notin pendingRequests'
                /\ resolveCalls'[i] = resolveCalls[i]
                /\ promise'[i] = promise[i]
                /\ posted'[i] = posted[i]]_vars

\* a request resolved by its timeout received a late response
C1_Witness ==
    \E i \in ReqIds :
        /\ requests[i].status = "expired"
        /\ resolveCalls[i] = 1
        /\ lastCall.op = "handleResponse" /\ lastCall.id = i

\* C2: once an always-allow response for a pending request has been handled,
\* and until resetSessionAccessLevel is called, every requestPermission call,
\* for any action type, returns true, creates no pending entry and posts no
\* message.
C2_AlwaysAllowSticks ==
    /\ [](upgraded => sessionAccessLevel = "full-access")
    /\ [](upgraded => \A t \in ActionTypes : ENABLED RequestPermission(t))
    /\ [][upgraded /\ lastCall'.op = "requestPermission" =>
            lastCall'.ret = "true" /\ UNCHANGED tables]_vars

\* after an always-allow, a request to run a command returned true at once
C2_Witness ==
    /\ upgraded
    /\ lastCall.op = "requestPermission" /\ lastCall.arg = "bash-command"
    /\ lastCall.ret = "true"

\* C3: under full-access requestPermission returns true for every action type
\* and leaves the pending, resolver and timeout tables, the timers and the
\* webview untouched.
C3_FullAccessFrame ==
    /\ [](sessionAccessLevel = "full-access" =>
            \A t \in ActionTypes : ENABLED RequestPermission(t))
    /\ [][sessionAccessLevel = "full-access" /\ lastCall'.op = "requestPermission" =>
            lastCall'.ret = "true" /\ UNCHANGED tables]_vars

\* a delete was requested under a full-access level that no response granted
C3_Witness ==
    /\ sessionAccessLevel = "full-access" /\ ~upgraded
    /\ lastCall.op = "requestPermission" /\ lastCall.arg = "file-delete"
    /\ lastCall.ret = "true"

\* C4: requestPermission for file-read returns true and creates no pending
\* request, under every access level and every configuration.
C4_ReadNeverGated ==
    /\ [](ENABLED RequestPermission("file-read"))
    /\ [][lastCall'.op = "requestPermission" /\ lastCall'.arg = "file-read" =>
            lastCall'.ret = "true" /\ UNCHANGED tables]_vars

\* a read was requested under read-only, with no timeout and require-action,
\* while another request was pending
C4_Witness ==
    /\ lastCall.op = "requestPermission" /\ lastCall.arg = "file-read"
    /\ lastCall.ret = "true"
    /\ sessionAccessLevel = "read-only"
    /\ config = [timeout |-> 0, timeoutBehavior |-> "require-action"]
    /\ pendingRequests # {}

\* the step creates request i
Creates(i) == i \notin pendingRequests /\ i \in pendingRequests'

Cancelled(i) ==
    /\ promise'[i] = "false"
    /\ resolveCalls'[i] = 1
    /\ requests'[i].status = "denied"
    /\ i \notin pendingRequests'
    /\ i \notin timers' /\ i \notin timeoutHandles'

\* C6: cancelRequest on a pending request resolves it false, marks it denied,
\* removes it from the pending set and clears its timer; cancelAllRequests does
\* so for every request pending at the call and leaves the pending set empty.
C6_CancelDenies ==
    /\ [][\A i \in ReqIds :
            lastCall'.op = "cancelRequest" /\ lastCall'.id = i /\ i \in pendingRequests
                => Cancelled(i)]_vars
    /\ [][lastCall'.op = "cancelAllRequests" =>
            /\ pendingRequests' = {}
            /\ \A i \in pendingRequests : Cancelled(i)]_vars

\* cancelAllRequests has just denied two requests, one of which had a timer
C6_Witness ==
    /\ lastCall.op = "cancelAllRequests"
    /\ \E i, j \in ReqIds :
        /\ i # j
        /\ requests[i].status = "denied" /\ promise[i] = "false"
        /\ requests[j].status = "denied" /\ promise[j] = "false"

\* C7: the session access level changes only when an always-allow response for
\* a pending request is handled (to full-access) and when
\* resetSessionAccessLevel sets it; both do change it as said.
C7_LevelChanges ==
    [][/\ sessionAccessLevel' # sessionAccessLevel =>
            \/ /\ lastCall'.op = "resetSessionAccessLevel"
               /\ sessionAccessLevel' = lastCall'.arg
            \/ /\ lastCall'.op = "handleResponse"
               /\ lastCall'.arg = "always-allow"
               /\ lastCall'.id \in pendingRequests
               /\ sessionAccessLevel' = "full-access"
       /\ lastCall'.op = "resetSessionAccessLevel" =>
            sessionAccessLevel' = lastCall'.arg
       /\ (/\ lastCall'.op = "handleResponse"
           /\ lastCall'.arg = "always-allow"
           /\ lastCall'.id \in pendingRequests) =>
            sessionAccessLevel' = "full-access"]_vars

\* a request was approved while the level stayed ask-permission
C7_Witness ==
    /\ sessionAccessLevel = "ask-permission"
    /\ lastCall.op = "handleResponse" /\ lastCall.arg = "approve"
    /\ lastCall.id # 0 /\ lastCall.id <= nextId
    /\ requests[lastCall.id].status = "approved"

\* C8 as claimed: while the level is read-only no request is approved, no call
\* for a non-read action returns true, and only resetSessionAccessLevel takes
\* the level out of read-only.
C8_ReadOnlyNeverApproves ==
    [][sessionAccessLevel = "read-only" =>
         /\ \A i \in ReqIds : promise'[i] = "true" => promise[i] = "true"
         /\ (lastCall'.op = "requestPermission" /\ lastCall'.arg # "file-read")
                => lastCall'.ret # "true"
         /\ sessionAccessLevel' # "read-only"
                => lastCall'.op = "resetSessionAccessLevel"]_vars

\* ------------------------------------------------------------------------
\* Properties of the CLI process runner
\* ------------------------------------------------------------------------
\* the content chunks, parsed from the child's stdout, yielded so far
ContentYielded == Len(SelectSeq(yielded, LAMBDA c : c = "chunk"))

\* C9 as claimed: when nobody cancels, a send that has started ends, whatever
\* the child does: the generator yields a final done or error chunk and returns.
C9_SendTerminates ==
    (<>cancelled) \/ ((pc # "idle") ~> (pc = "ended"))

\* C10 as claimed: after cancelCurrentRequest has acted on a send, a child that
\* is still alive has a forced kill scheduled for the end of the grace period,
\* and no further content chunk of that process is yielded.
C10_CancelKillsAndSilences ==
    /\ [](cancelled => child.sigterm >= 1)
    /\ [](cancelled /\ child.alive => graceTimers # {})
    /\ [][cancelled => ContentYielded' = ContentYielded]_vars

\* ------------------------------------------------------------------------
\* C11: when the hard timeout of waitForProcess elapses for a child that has
\* not closed, the child is sent SIGTERM, and a child that is still alive
\* once the grace period armed by that timeout has elapsed is sent SIGKILL.
\* ------------------------------------------------------------------------
C11_TimeoutTermThenKill ==
    /\ [][HardTimeout /\ child.alive => child'.sigterm >= 1]_vars
    /\ [][GraceFires("wait") /\ ("wait" \in graceTimers) /\ child.alive
          => child'.sigkill >= 1]_vars

\* ------------------------------------------------------------------------
\* C12: cancelCurrentRequest can be called in every state; with no child
\* referenced it changes nothing; with a child referenced it sends SIGTERM
\* to it (once, if it is still running), drops the reference, and neither
\* moves the generator nor yields; once the send is over no child is
\* referenced, so a later call changes nothing.
\* ------------------------------------------------------------------------
C12_CancelIdempotent ==
    /\ [](ENABLED CancelCurrentRequest)
    /\ [](~currentProcess => ~ENABLED (CancelCurrentRequest /\ vars' # vars))
    /\ [][CancelCurrentRequest /\ currentProcess
          => /\ ~currentProcess'
             /\ child'.sigterm = child.sigterm + (IF child.alive THEN 1 ELSE 0)
             /\ pc' = pc
             /\ yielded' = yielded]_vars
    /\ [](pc \in {"ended", "threw"} => ~currentProcess)

C12_Witness ==
    /\ cancelled
    /\ ~currentProcess
    /\ pc \in {"stream", "wait"}
    /\ child.sigterm = 1
    /\ ENABLED CancelCurrentRequest

\* ------------------------------------------------------------------------
\* C13: the chunks of one send end with exactly one done chunk or with an
\* error chunk: a send that is over has yielded at least one chunk, its last
\* chunk is done or error, done occurs at most once and only last, and
\* nothing is yielded after the final chunk.
\* ------------------------------------------------------------------------
C13_EndsWithDoneOrError ==
    /\ [](\A i \in 1..Len(yielded) : yielded[i] = "done" => i = Len(yielded))
    /\ [](pc \in {"ended", "threw"}
            => /\ Len(yielded) > 0
               /\ yielded[Len(yielded)] \in {"done", "error"})
    /\ [][(pc \in {"yieldedLast", "ended", "threw"})
            => yielded' = yielded]_vars

\* ------------------------------------------------------------------------
\* C14: no exception leaves the generator: a send never ends by throwing,
\* whichever phase fails (building the arguments or the prompt, spawning,
\* reading the stream, waiting for the exit).
\* ------------------------------------------------------------------------
C14_NoExceptionEscapes == [](pc # "threw")

\* ------------------------------------------------------------------------
\* C15: chunk-boundary independence. The chunks yielded are the parser's
\* results for the lines handed to it, so they are the same for every
\* delivery iff the lines are: once the stream is over, the lines parsed are
\* those parsed when the whole output arrives as one buffer, wherever the
\* chunk boundaries fell (inside a line, inside a character, before a final
\* line without newline).
\* ------------------------------------------------------------------------
WholeBuffer(bs) == NonBlank(Split(ChunkToString(bs)))

C15_ChunkBoundaryIndependent == eof => parsedLines = WholeBuffer(stdoutBytes)

\* ------------------------------------------------------------------------
\* C16: a complete non-blank line that is not JSON is never discarded: its
\* step yields exactly one chunk, a text chunk whose content is the line,
\* and leaves the parser as it was, so the stream goes on.
\* ------------------------------------------------------------------------
C16_NonJsonLineIsText ==
    /\ [][\A l \in TextLines :
             fedLines' = Append(fedLines, l) /\ l.kind = "nonjson"
               /\ ~IsBlank(l.text)
             => /\ chunks' = Append(chunks, TextChunk(l.text))
                /\ activeToolCalls' = activeToolCalls
                /\ currentSessionId' = currentSessionId]_vars
    /\ [](Len(fedLines) < MaxLines => ENABLED NextText)

C16_Witness ==
    /\ fedLines = <<BlockStart(0, "toolu_a", "Read"), NonJson(<<"H", "i">>),
                    BlockStop(0)>>
    /\ chunks = <<ToolUseChunk("toolu_a", "Read", EmptyObject),
                  TextChunk(<<"H", "i">>),
                  ToolUseChunk("toolu_a", "Read", EmptyObject)>>

\* ------------------------------------------------------------------------
\* What the lines fed so far say about the tool-call block at an index
\* ------------------------------------------------------------------------
IsStart(l, i) == l.kind = "content_block_start" /\ l.index = i

IsStop(l, i) == l.kind = "content_block_stop" /\ l.index = i

IsDelta(l, i) == l.kind = "input_json_delta" /\ l.index = i

\* position in the log of the start of the block still open at index i, or 0
OpenStart(log, i) ==
    LET starts == {q \in 1..Len(log) : IsStart(log[q], i)}
    IN IF starts = {} THEN 0
       ELSE LET q == CHOOSE x \in starts : \A y \in starts : y <= x
            IN IF \E p \in (q + 1)..Len(log) : IsStop(log[p], i) THEN 0 ELSE q

\* the fragments received for index i from position p on, joined in order
RECURSIVE FragmentsFrom(_, _, _)
FragmentsFrom(log, i, p) ==
    IF p > Len(log) THEN ""
    ELSE (IF IsDelta(log[p], i) THEN log[p].partial_json ELSE "")
         \o FragmentsFrom(log, i, p + 1)

\* the JSON object a text denotes; the empty object for "" and invalid text
ObjectOf(text) == IF text \in ValidJson THEN text ELSE EmptyObject

\* ------------------------------------------------------------------------
\* C17: the start of a tool_use block yields a running tool_use chunk with
\* empty input; a fragment yields nothing; the stop of an open block yields
\* exactly one tool_use chunk with the id and name of its start and, as
\* input, the object denoted by the fragments received for that index since
\* the start, joined in arrival order (the empty object when that text is
\* empty or invalid), whatever arrived for other indexes in between.
\* ------------------------------------------------------------------------
C17_ToolInputAccumulated ==
    [][\A l \in ToolLines :
          fedLines' = Append(fedLines, l)
          => /\ l.kind = "content_block_start"
                => chunks' = Append(chunks,
                                ToolUseChunk(l.id, l.name, EmptyObject))
             /\ l.kind = "input_json_delta" => chunks' = chunks
             /\ (l.kind = "content_block_stop"
                   /\ OpenStart(fedLines, l.index) > 0)
                => LET q == OpenStart(fedLines, l.index)
                   IN chunks' = Append(chunks,
                          ToolUseChunk(fedLines[q].id, fedLines[q].name,
                              ObjectOf(FragmentsFrom(fedLines, l.index, q))))
      ]_vars

C17_Witness ==
    /\ fedLines = <<BlockStart(0, "toolu_a", "Read"), InputJsonDelta(0, "{k:"),
                    BlockStart(1, "toolu_b", "Bash"), InputJsonDelta(0, "1}"),
                    BlockStop(0)>>
    /\ chunks = <<ToolUseChunk("toolu_a", "Read", EmptyObject),
                  ToolUseChunk("toolu_b", "Bash", EmptyObject),
                  ToolUseChunk("toolu_a", "Read", "{k:1}")>>

\* ------------------------------------------------------------------------
\* C18: the stop of a block discards its accumulator. A later call on the
\* same index ends with a chunk made of its own id, name and fragments only,
\* and a stop for an index with no open block yields no chunk.
\* ------------------------------------------------------------------------
C18_AccumulatorDiscarded ==
    /\ [](\A i \in BlockIndexes :
             i \in DOMAIN activeToolCalls <=> OpenStart(fedLines, i) > 0)
    /\ [](\A i \in DOMAIN activeToolCalls :
             LET q == OpenStart(fedLines, i)
             IN activeToolCalls[i] =
                    [id |-> fedLines[q].id, name |-> fedLines[q].name,
                     inputJson |-> FragmentsFrom(fedLines, i, q)])
    /\ [][\A i \in BlockIndexes :
             LET q == OpenStart(fedLines, i)
             IN fedLines' = Append(fedLines, BlockStop(i))
                  /\ q > 0
                  /\ (\E p \in 1..(q - 1) : IsStop(fedLines[p], i))
                => LET c == chunks'[Len(chunks')]
                   IN /\ Len(chunks') = Len(chunks) + 1
                      /\ c.id = fedLines[q].id
                      /\ c.name = fedLines[q].name
                      /\ c.input =
                             ObjectOf(FragmentsFrom(fedLines, i, q))]_vars
    /\ [][\A i \in BlockIndexes :
             fedLines' = Append(fedLines, BlockStop(i))
               /\ OpenStart(fedLines, i) = 0
             => chunks' = chunks]_vars

C18_Witness ==
    /\ fedLines = <<BlockStart(0, "toolu_a", "Read"),
                    InputJsonDelta(0, "{k:1}"), BlockStop(0),
                    BlockStart(0, "toolu_b", "Bash"), BlockStop(0)>>
    /\ chunks = <<ToolUseChunk("toolu_a", "Read", EmptyObject),
                  ToolUseChunk("toolu_a", "Read", "{k:1}"),
                  ToolUseChunk("toolu_b", "Bash", EmptyObject),
                  ToolUseChunk("toolu_b", "Bash", EmptyObject)>>
    /\ activeToolCalls = <<>>

\* ------------------------------------------------------------------------
\* What the lines fed so far say about a tool call id
\* ------------------------------------------------------------------------
\* positions of the content_block_start lines of call c
StartsOf(log, c) ==
    {q \in 1..Len(log) : log[q].kind = "content_block_start" /\ log[q].id = c}

\* positions of the stops that close the block started at position q
StopsOf(log, q) ==
    {p \in (q + 1)..Len(log) : IsStop(log[p], log[q].index)}

\* the tool_result reports of call c: blocks of user records and direct
\* tool_result records, as <<line, block>> positions
ResultsOf(log, c) ==
    {pj \in (1..Len(log)) \X (0..2) :
        LET l == log[pj[1]]
        IN \/ /\ l.kind = "user"
              /\ pj[2] \in 1..Len(l.content)
              /\ l.content[pj[2]].type = "tool_result"
              /\ l.content[pj[2]].tool_use_id = c
           \/ /\ l.kind = "tool_result"
              /\ pj[2] = 0
              /\ l.tool_use_id = c}

\* call c was started once, closed once after that and reported once after
\* the stop; complete assistant messages naming it come after the stop
ReportedOnce(log, c) ==
    /\ Cardinality(StartsOf(log, c)) = 1
    /\ LET q == CHOOSE x \in StartsOf(log, c) : TRUE
       IN /\ Cardinality(StopsOf(log, q)) = 1
          /\ \A x \in 1..Len(log) :
                 IsStart(log[x], log[q].index) => x = q
          /\ Cardinality(ResultsOf(log, c)) = 1
          /\ \A pj \in ResultsOf(log, c) :
                 \A p \in StopsOf(log, q) : p < pj[1]
          /\ \A x \in 1..Len(log) :
                 (log[x].kind = "assistant"
                    /\ \E j \in 1..Len(log[x].content) :
                           /\ log[x].content[j].type = "tool_use"
                           /\ log[x].content[j].id = c)
                 => \A p \in StopsOf(log, q) : p < x

\* the chunks yielded for call c
ChunksOf(c) ==
    SelectSeq(chunks, LAMBDA k : k.type \in {"tool_use", "tool_result"}
                                  /\ k.id = c)

\* ------------------------------------------------------------------------
\* C19: for every call that the backend started once, closed once and
\* reported once, the chunks yielded for its id are the running start
\* chunk, one tool_use chunk with the full input and one tool_result chunk,
\* in this order, also when complete assistant messages are sent and when a
\* record carries several blocks.
\* ------------------------------------------------------------------------
C19_StartInputResultOnce ==
    (\A c \in ToolCallIds :
        ReportedOnce(fedLines, c)
        \/ (StartsOf(fedLines, c) = {} /\ ResultsOf(fedLines, c) = {}))
    => \A c \in ToolCallIds :
           ReportedOnce(fedLines, c)
           => /\ Len(ChunksOf(c)) = 3
              /\ ChunksOf(c)[1].type = "tool_use"
              /\ ChunksOf(c)[2].type = "tool_use"
              /\ ChunksOf(c)[3].type = "tool_result"

\* ------------------------------------------------------------------------
\* C20: a session id is taken only from a system record of subtype init and
\* only while none is known; an init record never replaces a known id; one
\* process yields at most one session_active chunk, and a process started
\* with a session id to resume yields none.
\* ------------------------------------------------------------------------
SessionActiveCount ==
    Len(SelectSeq(chunks, LAMBDA k : k.type = "session_active"))

C20_SessionIdOnce ==
    /\ [][currentSessionId' # currentSessionId
            /\ currentSessionId' # NoSession
          => /\ currentSessionId = NoSession
             /\ \E l \in SessionLines :
                   /\ fedLines' = Append(fedLines, l)
                   /\ l.kind = "system"
                   /\ l.subtype = "init"
                   /\ l.session_id = currentSessionId']_vars
    /\ [](SessionActiveCount <= 1)
    /\ [](resumedWith # NoSession => SessionActiveCount = 0)

\* ------------------------------------------------------------------------
\* C21: session continuity. A send that follows a turn passes to the
\* backend exactly the session id known when it starts, and no resume
\* argument when none is known; the id known is the one of the turn's last
\* session_active chunk, and a known id changes only by being cleared.
\* ------------------------------------------------------------------------
C21_SessionContinuity ==
    /\ [][fedLines # <<>> /\ fedLines' = <<>>
          => resumedWith' = currentSessionId]_vars
    /\ [](currentSessionId # NoSession /\ SessionActiveCount > 0
          => SelectSeq(chunks, LAMBDA k : k.type = "session_active")
                 [SessionActiveCount].sessionId = currentSessionId)
    /\ [][currentSessionId # NoSession
          => currentSessionId' \in {currentSessionId, NoSession}]_vars

C21_Witness ==
    /\ resumedWith = "s1"
    /\ currentSessionId = "s1"
    /\ fedLines = <<System("init", "s2")>>
    /\ chunks = <<>>

\* ------------------------------------------------------------------------
\* C22: a send whose child exited with a non-zero code, wrote to stderr and
\* produced no chunk ends with an error chunk for the consumer: the stderr
\* text collected during the run is what the decision at exit sees.
\* ------------------------------------------------------------------------
C22_StderrSurfaced ==
    (pc \in {"yieldedLast", "ended"} /\ exitCode = "1"
       /\ child.stderrOutput # "" /\ ContentYielded = 0)
    => \E i \in 1..Len(yielded) : yielded[i] = "error"

\* ------------------------------------------------------------------------
\* C30: every tool_result line yields its own tool_result chunk, whatever
\* came before: the chunk has the line's tool_use_id and the status of the
\* line's own is_error (failed when true, completed otherwise), so two
\* lines for one id with different is_error yield two different chunks.
\* ------------------------------------------------------------------------
C30_ToolResultPerLine ==
    [][\A l \in ResultLines :
          fedLines' = Append(fedLines, l) /\ l.kind = "tool_result"
          => LET c == chunks'[Len(chunks')]
             IN /\ Len(chunks') = Len(chunks) + 1
                /\ SubSeq(chunks', 1, Len(chunks)) = chunks
                /\ c.type = "tool_result"
                /\ c.id = l.tool_use_id
                /\ c.status = IF l.is_error THEN "failed" ELSE "completed"
      ]_vars

C30_Witness ==
    /\ fedLines = <<DirectToolResult("toolu_a", TRUE),
                    DirectToolResult("toolu_a", FALSE)>>
    /\ Len(chunks) = 2
    /\ chunks[1].id = "toolu_a" /\ chunks[1].status = "failed"
    /\ chunks[2].id = "toolu_a" /\ chunks[2].status = "completed"

\* ------------------------------------------------------------------------
\* C23: for a user message that begins with '/', the prompt built by
\* BaseCliProvider is exactly that message and nothing else, whatever the
\* context, history, persona, agent instructions and mode.
\* ------------------------------------------------------------------------
C23_SlashPassthrough ==
    (/\ promptArgs.builder = "BaseCliProvider"
     /\ promptArgs.content # <<>>
     /\ Head(promptArgs.content) = "/")
    => fullPrompt = <<[part |-> "message", text |-> promptArgs.content]>>

\* ------------------------------------------------------------------------
\* C24: for a non-slash message the parts of the prompt come in the fixed
\* order instructions, context, history, message, mode directive; the
\* message is the user's text verbatim; the directive of the current mode,
\* when the mode has one, is the last part.
\* ------------------------------------------------------------------------
PartRank(p) ==
    CASE p.part = "instructions" -> 1
      [] p.part = "context" -> 2
      [] p.part = "history" -> 3
      [] p.part = "message" -> 4
      [] p.part = "mode" -> 5

\* the modes addModeInstructions and buildPromptAsync have a directive for
DirectiveModes == {"ask-before-edit", "edit-automatically", "plan", "quick-plan"}

C24_FixedOrder ==
    (promptArgs.builder # "none" /\ ~IsSlashCommand(promptArgs.content))
    => /\ \A i, j \in 1..Len(fullPrompt) :
             i < j => PartRank(fullPrompt[i]) < PartRank(fullPrompt[j])
       /\ \E i \in 1..Len(fullPrompt) :
             fullPrompt[i] = [part |-> "message", text |-> promptArgs.content]
       /\ (promptArgs.builder = "BaseCliProvider"
           /\ promptArgs.mode \in DirectiveModes)
          => fullPrompt[Len(fullPrompt)] =
                [part |-> "mode", mode |-> promptArgs.mode]

\* ------------------------------------------------------------------------
\* C25: the history part of a prompt holds the last 10 messages of the
\* conversation in their order, most recent last: all n when n <= 10, and
\* none of the first n - 10 otherwise.
\* ------------------------------------------------------------------------
HistoryOf(prompt) ==
    SelectSeq(prompt, LAMBDA p : p.part = "history")

C25_LastTenMessages ==
    promptArgs.builder # "none"
    => \A h \in 1..Len(HistoryOf(fullPrompt)) :
          LET entries == HistoryOf(fullPrompt)[h].entries
              n == promptArgs.conversation
              k == IF n <= 10 THEN n ELSE 10
          IN /\ Len(entries) = k
             /\ \A i \in 1..k : entries[i].content = n - k + i
             /\ \A i \in 1..k :
                   entries[i].role = IF (n - k + i) % 2 = 1
                                     THEN "User" ELSE "Assistant"

C25_Witness ==
    /\ promptArgs.builder = "BaseCliProvider"
    /\ promptArgs.conversation = 11
    /\ Len(HistoryOf(fullPrompt)) = 1
    /\ Len(HistoryOf(fullPrompt)[1].entries) = 10
    /\ HistoryOf(fullPrompt)[1].entries[1].content = 2
    /\ HistoryOf(fullPrompt)[1].entries[10].content = 11

\* ------------------------------------------------------------------------
\* C26: with sends in flight on two panels, a step that cancels or completes
\* one panel's send (the end of its stream, its timeout, its finally block,
\* its cancellation) sends no signal to the other panel's process and leaves
\* the other panel's table entry as it is; completion and cancellation
\* remove the panel's own entry; an entry names the panel's own process.
\* ------------------------------------------------------------------------
InFlight(p) == sendPhase[p] \in {"stream", "wait", "finishing"}

C26_PanelIsolation ==
    /\ [][\A p \in Panels : \A q \in Panels \ {p} :
             (/\ InFlight(p) /\ InFlight(q)
              /\ \/ PanelStreamEnd(p) \/ PanelTimeout(p)
                 \/ PanelFinally(p) \/ CancelPanel(p))
             => /\ processes'[q].sigterm = processes[q].sigterm
                /\ processes'[q].killed = processes[q].killed
                /\ panelProcesses'[q] = panelProcesses[q]]_vars
    /\ [][\A p \in Panels :
             PanelFinally(p) \/ CancelPanel(p) => panelProcesses'[p] = "none"]_vars
    /\ [](\A p \in Panels : panelProcesses[p] \in {"none", p})

\* ------------------------------------------------------------------------
\* C27: a send whose provider id is missing or unknown is resolved to the
\* default provider claude-code: it starts a claude-code process and yields
\* no error chunk for the id (claude-code is always registered).
\* ------------------------------------------------------------------------
C27_FallbackToDefault ==
    [][\A id \in ProviderIds \ {"claude-code"} :
          SendMessage(id)
          => /\ resumedWith' = currentSessionId
             /\ \A i \in 1..Len(chunks') : chunks'[i].type # "error"]_vars

\* ------------------------------------------------------------------------
\* C28: a failure of an AI-assisted feature (timeout, non-zero exit, empty or
\* unparsable output, spawn error) gives an empty or neutral result, never a
\* rejected promise, in classify and in generateSuggestions.
\* ------------------------------------------------------------------------
C28_NeverRejects == helper.result # "rejected"

\* the call's process produced no usable answer
HelperFailed ==
    \/ helper.cause \in {"timeout", "error", "exit1"}
    \/ /\ helper.cause = "exit0"
       /\ \/ AllSpaces(helper.output)
          \/ helper.feature = "classify"
             /\ ~\E i, j \in 1..Len(helper.output) :
                   i < j /\ IsJson(SubSeq(helper.output, i, j))
                         /\ helper.output[i] = "{"
          \/ helper.feature = "suggest"
             /\ ~\E i, j \in 1..Len(helper.output) :
                   i < j /\ IsJson(SubSeq(helper.output, i, j))
                         /\ helper.output[i] = "["

\* C28, amended: on those failures classify resolves with the neutral
\* classification and never rejects; generateSuggestions rejects, as it
\* does when the answer holds no suggestion.
C28_ClassifyDegradesSuggestRejects ==
    /\ helper.feature = "classify" => helper.result # "rejected"
    /\ (helper.feature = "classify" /\ helper.cause # "none" /\ HelperFailed)
       => helper.result = "neutral"
    /\ (helper.feature = "suggest" /\ helper.cause # "none" /\ HelperFailed)
       => helper.result = "rejected"

C28_Witness ==
    /\ helper.feature = "classify"
    /\ helper.cause = "exit0"
    /\ helper.output = <<"{", "x", "}">>
    /\ helper.result = "neutral"

\* ------------------------------------------------------------------------
\* C29: with a positive agents.maxTokenBudget the estimatedTokens returned by
\* buildPromptContext never exceeds the budget, for any persona and any list
\* of enabled skills.
\* ------------------------------------------------------------------------
C29_WithinBudget ==
    (agentContext.called /\ agentContext.budget > 0)
    => agentContext.estimatedTokens <= agentContext.budget

C33_CleanupOwnProcess ==
    [][\A p \in Panels : \A q \in Panels \ {p} :
          (/\ sendPhase[p] # "done" /\ sendPhase'[p] = "done"
           /\ InFlight(q) /\ providerProcess = q)
          => /\ providerProcess' = q
             /\ processes'[q] = processes[q]]_vars

\* ------------------------------------------------------------------------
\* C34: a send whose child exits with code 0 ends normally whenever the
\* child's close event fires: once the close event of such a child has been
\* emitted, the send is not left waiting for it, so the process timeout of
\* waitForProcess never fires for it and no timeout error is yielded.
\* ------------------------------------------------------------------------
C34_CloseBeforeListener ==
    /\ [][HardTimeout => ~(child.code = "0" /\ child.closeEmitted)]_vars
    /\ [](child.code = "0" /\ child.closeEmitted /\ ~cancelled => pc # "wait")

\* ------------------------------------------------------------------------
\* C38: refreshConfig does not change the outcome of a pending request: a
\* request created while timeoutBehavior was auto-reject is never approved
\* by its timeout, one created under auto-accept is never denied by its
\* timeout, and a request created without a timer never expires.
\* ------------------------------------------------------------------------
JustCreated(id) == lastCall.op = "requestPermission" /\ lastCall.id = id

C38_RefreshKeepsOutcome ==
    \A id \in ReqIds :
       /\ [](JustCreated(id) /\ config.timeoutBehavior = "auto-reject"
             => [](requests[id].status = "expired" => promise[id] = "false"))
       /\ [](JustCreated(id) /\ config.timeoutBehavior = "auto-accept"
             => [](requests[id].status = "expired" => promise[id] = "true"))
       /\ [](JustCreated(id) /\ ~ArmsTimer(config)
             => [](requests[id].status # "expired"))

\* ------------------------------------------------------------------------
\* PermissionManager: postToWebview answers before requestPermission goes on
\* ------------------------------------------------------------------------
\* what the webview callback does with the request it is handed
SyncAnswers == Decisions \cup {"cancel"}

\* requestPermission when postToWebview, called after _pendingRequests.set and
\* before the promise executor stores the resolver, calls handleResponse
\* (a decision) or cancelRequest ("cancel") for the new request: the callee
\* finds the request pending, no timeout handle and no resolver; then the
\* executor stores the resolver and arms the timer
RequestPermissionAnswered(actionType, answer) ==
    /\ ~SessionAutoApproves(sessionAccessLevel)
    /\ ~ReadAlwaysAllowed(actionType)
    /\ nextId < MaxReq
    /\ LET id == GenerateId IN
       /\ nextId' = id
       /\ requests' = [requests EXCEPT ![id] =
                         [status |-> IF answer = "cancel" THEN "denied"
                                     ELSE StatusOf(answer)]]
       /\ pendingRequests' = pendingRequests \ {id}
       /\ sessionAccessLevel' = IF answer # "cancel" /\ UpgradesSession(answer)
                                THEN "full-access" ELSE sessionAccessLevel
       /\ upgraded' = (upgraded \/ answer = "always-allow")
       /\ posted' = [posted EXCEPT ![id].request = @ + 1]
       /\ promise' = [promise EXCEPT ![id] = "pending"]
       /\ resolvers' = resolvers \cup {id}
       /\ IF ArmsTimer(config)
          THEN /\ timers' = timers \cup {id}
               /\ timeoutHandles' = timeoutHandles \cup {id}
          ELSE UNCHANGED <<timers, timeoutHandles>>
       /\ lastCall' = [op |-> "requestPermission", arg |-> actionType,
                       id |-> id, ret |-> "promise"]
    /\ UNCHANGED <<config, resolveCalls>>
    /\ UNCHANGED <<cliVars, streamVars, auxVars>>

NextPermSync ==
    \/ NextPerm
    \/ \E t \in ActionTypes, a \in SyncAnswers : RequestPermissionAnswered(t, a)

SpecPermSync == Init /\ [][NextPermSync]_vars

\* ------------------------------------------------------------------------
\* C35: between calls the pending table and the resolver table hold the same
\* ids and every timeout handle belongs to a pending request, also when
\* postToWebview answers synchronously; a request that was answered has its
\* promise resolved.
\* ------------------------------------------------------------------------
C35_TablesAgree ==
    /\ pendingRequests = resolvers
    /\ timeoutHandles \subseteq pendingRequests
    /\ \A id \in ReqIds :
          requests[id].status \in {"approved", "denied", "expired"}
          => promise[id] \in {"true", "false"}

\* ------------------------------------------------------------------------
\* C36: after clearSession the session id stays null until a process spawned
\* after the clear reports one: a record of the process that was already
\* running when the session was cleared does not set it.
\* ------------------------------------------------------------------------
\* the running process resumed a session and the id is null now: clearSession
\* was called after the process was spawned (no record sets the id to null)
ClearedInFlight == resumedWith # NoSession /\ currentSessionId = NoSession

C36_ClearedStaysCleared ==
    [][ClearedInFlight => (currentSessionId' = NoSession \/ StartProcess)]_vars

\* ------------------------------------------------------------------------
\* Tool-call blocks over several sends of the legacy provider
\* ------------------------------------------------------------------------
\* the accumulated input text the lines below are fed to (characters)
MaxJsonLen == 10

RestartLines ==
    {BlockStart(0, "toolu_a", ToolName("toolu_a")), InputJsonDelta(0, "{k:1}"),
     BlockStop(0), BlockStop(1)}

NextRestart ==
    \/ /\ \A i \in DOMAIN activeToolCalls :
             Len(activeToolCalls[i].inputJson) < MaxJsonLen
       /\ \E l \in RestartLines : ParseLine(l)
    \/ StartProcess

SpecRestart == InitDefault /\ [][NextRestart]_vars

\* ------------------------------------------------------------------------
\* C37: tool-call accumulators do not survive their process: a
\* content_block_stop or input_json_delta at an index for which the running
\* process has sent no tool_use content_block_start yields no chunk and
\* changes no accumulator.
\* ------------------------------------------------------------------------
C37_AccumulatorsEndWithProcess ==
    [][\A i \in BlockIndexes :
          (/\ Len(fedLines') = Len(fedLines) + 1
           /\ (IsStop(fedLines'[Len(fedLines')], i)
               \/ IsDelta(fedLines'[Len(fedLines')], i))
           /\ \A q \in 1..Len(fedLines) : ~IsStart(fedLines[q], i))
          => (chunks' = chunks /\ activeToolCalls' = activeToolCalls)]_vars

\* ------------------------------------------------------------------------
\* The legacy send loop to its end: lines, then the close of the process
\* ------------------------------------------------------------------------
\* what the child wrote to stderr: nothing, or some text
StderrOutputs == {<<>>, <<"E">>}

ErrorChunk(content) == [type |-> "error", content |-> content]

DoneChunk == [type |-> "done"]

\* the send has yielded its done chunk
SendOver == Len(chunks) > 0 /\ chunks[Len(chunks)].type = "done"

\* after the loop and the remainder: the 'close' event resolves exitCode, the
\* stderr text is reported if nothing was yielded, then done is yielded
LegacyClose(code, stderrOutput) ==
    LET hasYieldedContent == Len(chunks) > 0
    IN /\ ~SendOver
       /\ chunks' = chunks
             \o (IF code \notin {"0", "null"} /\ ~hasYieldedContent
                    /\ stderrOutput # <<>>
                 THEN <<ErrorChunk(stderrOutput)>>
                 ELSE IF ~hasYieldedContent /\ stderrOutput # <<>>
                      THEN <<ErrorChunk(<<"No response received. stderr: ">>
                                        \o stderrOutput)>>
                      ELSE <<>>)
             \o <<DoneChunk>>
       /\ UNCHANGED <<currentSessionId, activeToolCalls, resumedWith, fedLines>>
       /\ UNCHANGED <<permVars, cliVars, lineVars, auxVars>>

OrderLines ==
    {NonJson(<<"H", "i">>), NonJson(<<" ">>), TextDelta(<<"o", "k">>),
     MessageStop}

NextOrder ==
    \/ ~SendOver /\ \E l \in OrderLines : ParseLine(l)
    \/ \E c \in ExitCodes, e \in StderrOutputs : LegacyClose(c, e)
    \/ StartProcess

SpecOrder == InitDefault /\ [][NextOrder]_vars

\* ------------------------------------------------------------------------
\* C32: chunks are yielded in the order of their lines: a line adds at most
\* one chunk, its own, behind every chunk yielded before; an error chunk made
\* from stderr comes after all parsed chunks and right before done, and done
\* is the last chunk.
\* ------------------------------------------------------------------------
C32_ChunksInLineOrder ==
    /\ [][Len(fedLines') = Len(fedLines) + 1
          => \/ chunks' = chunks
             \/ /\ Len(chunks') = Len(chunks) + 1
                /\ SubSeq(chunks', 1, Len(chunks)) = chunks
                /\ chunks'[Len(chunks')].type \notin {"error", "done"}
                /\ chunks'[Len(chunks')] =
                     ParseStreamLine(fedLines'[Len(fedLines')], activeToolCalls,
                                     currentSessionId).chunk]_vars
    /\ [][Len(chunks') >= Len(chunks) /\ Len(chunks) > 0
          => SubSeq(chunks', 1, Len(chunks)) = chunks]_vars
    /\ [](\A i \in 1..Len(chunks) :
             /\ chunks[i].type = "done" => i = Len(chunks)
             /\ chunks[i].type = "error"
                => i + 1 = Len(chunks) /\ chunks[i + 1].type = "done")

C32_Witness ==
    /\ fedLines = <<NonJson(<<"H", "i">>), MessageStop, TextDelta(<<"o", "k">>)>>
    /\ chunks = <<TextChunk(<<"H", "i">>), TextChunk(<<"o", "k">>), DoneChunk>>

\* ------------------------------------------------------------------------
\* SuggestionManager: the warm process and the requests' processes
\* ------------------------------------------------------------------------
\* _spawnWarmProcess: nothing when a warm process is referenced, else a new
\* process becomes _warmProcess (_isSpawning is false between two handlers)
SpawnWarmProcess(s) ==
    IF s.warmProcess # NoProc THEN s
    ELSE [s EXCEPT !.spawned = @ + 1,
                   !.procs[s.spawned + 1] = Spawned(TRUE),
                   !.warmProcess = s.spawned + 1]

\* the process a request is about to use: the warm one, else a new one
TakenProcess(s) ==
    IF s.warmProcess # NoProc THEN s.warmProcess ELSE s.spawned + 1

\* "if (this._warmProcess) { proc = this._warmProcess; this._warmProcess =
\*  null } else { proc = spawn(...) }", then the request's handlers on proc
TakeProcess(s, request) ==
    IF s.warmProcess # NoProc
    THEN [s EXCEPT !.procs[s.warmProcess].request = request,
                   !.warmProcess = NoProc]
    ELSE [s EXCEPT !.spawned = @ + 1,
                   !.procs[s.spawned + 1] =
                       [Spawned(FALSE) EXCEPT !.request = request]]

\* proc.kill('SIGTERM'): a signal is sent to a process that still runs
KillProc(s, q) ==
    IF s.procs[q].state = "running"
    THEN [s EXCEPT !.procs[q].signalled = TRUE] ELSE s

\* cancelGeneration's body
AfterCancel(s) ==
    IF s.currentProcess # NoProc
    THEN [KillProc(s, s.currentProcess) EXCEPT !.currentProcess = NoProc]
    ELSE s

\* a request can get a process within the bound
CanTake == suggestion.warmProcess # NoProc \/ suggestion.spawned < MaxProcs

OtherComponents ==
    <<permVars, cliVars, streamVars, promptVars, panelVars, requested, helper,
      agentContext>>

\* generateTitle up to the registration of its handlers
GenerateTitle ==
    /\ CanTake
    /\ suggestion' = TakeProcess(suggestion, "title")
    /\ UNCHANGED OtherComponents

\* generateSuggestions up to the registration of its handlers:
\* cancelGeneration, then _callClaude takes a process and stores it
GenerateSuggestionsCall ==
    /\ CanTake
    /\ LET s == AfterCancel(suggestion)
       IN suggestion' = [TakeProcess(s, "suggest") EXCEPT
                            !.currentProcess = TakenProcess(s)]
    /\ UNCHANGED OtherComponents

CancelGeneration ==
    /\ suggestion' = AfterCancel(suggestion)
    /\ UNCHANGED OtherComponents

\* the 5 s / 10 s timer of a request whose process has not closed
RequestTimeout(q) ==
    /\ suggestion.procs[q].state = "running"
    /\ suggestion.procs[q].request # "none"
    /\ suggestion' = KillProc(suggestion, q)
    /\ UNCHANGED OtherComponents

\* the state after the 'close' (or 'error') listeners of process q ran, in
\* the order they were attached: the warm listener of _spawnWarmProcess, then
\* the request's listener
AfterEnd(s, q) ==
    LET ended == [s EXCEPT !.procs[q].state = "closed"]
        warmHandled == IF s.procs[q].warm
                       THEN [ended EXCEPT !.warmProcess = NoProc] ELSE ended
        requestHandled == IF s.procs[q].request = "suggest"
                          THEN [warmHandled EXCEPT !.currentProcess = NoProc]
                          ELSE warmHandled
    IN [respawns |-> s.procs[q].request # "none", state |-> requestHandled]

\* process q emits 'close' or 'error': both events have the same handlers
ProcessEnds(q) ==
    LET r == AfterEnd(suggestion, q)
    IN /\ suggestion.procs[q].state = "running"
       /\ ~r.respawns \/ r.state.warmProcess # NoProc
          \/ suggestion.spawned < MaxProcs
       /\ suggestion' = IF r.respawns THEN SpawnWarmProcess(r.state)
                        ELSE r.state
       /\ UNCHANGED OtherComponents

\* dispose: cancelGeneration, then the warm process is signalled and forgotten
Dispose ==
    /\ LET s == AfterCancel(suggestion)
       IN suggestion' = IF s.warmProcess # NoProc
                        THEN [KillProc(s, s.warmProcess) EXCEPT
                                 !.warmProcess = NoProc]
                        ELSE s
    /\ UNCHANGED OtherComponents

NextSuggestion ==
    \/ GenerateTitle
    \/ GenerateSuggestionsCall
    \/ CancelGeneration
    \/ \E q \in ProcIds : RequestTimeout(q)
    \/ \E q \in ProcIds : ProcessEnds(q)
    \/ Dispose

SpecSuggestion == Init /\ [][NextSuggestion]_vars

\* a suggestion generation in flight: its process runs and was not signalled
GenerationInFlight(s, q) ==
    /\ s.procs[q].state = "running"
    /\ s.procs[q].request = "suggest"
    /\ ~s.procs[q].signalled

\* ------------------------------------------------------------------------
\* C39: cancelGeneration signals the process of every suggestion generation
\* in flight, and the close or error event of an earlier generation's process
\* never clears the reference to a later generation's process.
\* ------------------------------------------------------------------------
C39_CancelSignalsGeneration ==
    /\ [][CancelGeneration
          => \A q \in ProcIds : ~GenerationInFlight(suggestion', q)]_vars
    /\ [][\A q \in ProcIds :
             (ProcessEnds(q) /\ suggestion.currentProcess \notin {NoProc, q})
             => suggestion'.currentProcess = suggestion.currentProcess]_vars

\* ------------------------------------------------------------------------
\* C40: no warm process is orphaned: every running process spawned by
\* _spawnWarmProcess that was not signalled is the one _warmProcess refers to
\* or serves a title or suggestion request, and the end of a process taken
\* for a request never clears the reference to a newer idle warm process.
\* ------------------------------------------------------------------------
IdleWarm(s, q) ==
    /\ s.procs[q].state = "running"
    /\ s.procs[q].warm
    /\ s.procs[q].request = "none"
    /\ ~s.procs[q].signalled

C40_NoOrphanWarmProcess ==
    /\ [](\A q \in ProcIds :
             IdleWarm(suggestion, q) => suggestion.warmProcess = q)
    /\ [][\A q \in ProcIds :
             (ProcessEnds(q) /\ suggestion.procs[q].request # "none"
              /\ suggestion.warmProcess # NoProc)
             => suggestion'.warmProcess = suggestion.warmProcess]_vars


====
